---------------------------- MODULE Spec2Model ----------------------------
(***************************************************************************)
(* json-lens: the collapsible JSON tree (CollapsibleJSON) with its search  *)
(* index engine (the search effect / findMatches), its renderer            *)
(* (renderValue / highlightMatches) and match navigation.                  *)
(*                                                                         *)
(* Strings are sequences of one-character strings, so that substring,      *)
(* lastIndexOf, toLowerCase and the regular-expression scan are computed    *)
(* as the code computes them.  JSON values are records [t, v].             *)
(***************************************************************************)
EXTENDS Integers, Sequences, FiniteSets, TLC

(***************************************************************************)
(* Strings                                                                 *)
(***************************************************************************)
Min(S) == CHOOSE x \in S : \A y \in S : x <= y
Max(S) == CHOOSE x \in S : \A y \in S : x >= y

Digits == <<"0", "1", "2", "3", "4", "5", "6", "7", "8", "9">>

\* String.prototype.toLowerCase, on the letters the documents and terms use
Lower(c) ==
  CASE c = "A" -> "a"
    [] c = "B" -> "b"
    [] c = "O" -> "o"
    [] OTHER   -> c

toLowerCase(s) == [i \in 1..Len(s) |-> Lower(s[i])]

WhiteSpace == {" "}

\* String.prototype.trim
trim(s) ==
  LET keep == {i \in 1..Len(s) : s[i] \notin WhiteSpace}
  IN  IF keep = {} THEN <<>> ELSE SubSeq(s, Min(keep), Max(keep))

\* 0-based index of the first occurrence of the string sub in s at or after
\* the 0-based position from, or -1
IndexOfFrom(s, sub, from) ==
  LET hits == {i \in from..(Len(s) - Len(sub)) :
                 SubSeq(s, i + 1, i + Len(sub)) = sub}
  IN  IF hits = {} THEN -1 ELSE Min(hits)

\* String.prototype.includes
includes(s, sub) == IndexOfFrom(s, sub, 0) >= 0

\* String.prototype.lastIndexOf (0-based, -1 when absent)
lastIndexOf(s, sub) ==
  LET hits == {i \in 0..(Len(s) - Len(sub)) :
                 SubSeq(s, i + 1, i + Len(sub)) = sub}
  IN  IF hits = {} THEN -1 ELSE Max(hits)

\* String.prototype.substring(0, end): a negative end is taken as 0
substring0(s, end) == IF end <= 0 THEN <<>> ELSE SubSeq(s, 1, end)

\* String(n) for a non-negative integer n
RECURSIVE NumToStr(_)
NumToStr(n) ==
  IF n < 10 THEN <<Digits[n + 1]>>
  ELSE NumToStr(n \div 10) \o <<Digits[(n % 10) + 1]>>

\* String(b) for a boolean b
BoolToStr(b) == IF b THEN <<"t", "r", "u", "e">> ELSE <<"f", "a", "l", "s", "e">>

(***************************************************************************)
(* Regular expressions: new RegExp(escapeRegExp(term), "gi") and exec      *)
(***************************************************************************)
RegExpMeta == {".", "*", "+", "?", "^", "$", "{", "}", "(", ")", "|", "[", "]", "\\"}

\* a slip: the term is used as the pattern as it is
escapeRegExpNoEscape(s) == s

\* every metacharacter c becomes \c
RECURSIVE escapeRegExp(_)
escapeRegExp(s) ==
  IF s = <<>> THEN <<>>
  ELSE (IF Head(s) \in RegExpMeta THEN <<"\\", Head(s)>> ELSE <<Head(s)>>)
       \o escapeRegExp(Tail(s))

\* The pattern as a sequence of atoms: an escaped character is that literal
\* character, an unescaped dot is any character, any other character is
\* itself.
RECURSIVE RegExpAtoms(_)
RegExpAtoms(p) ==
  IF p = <<>> THEN <<>>
  ELSE IF Head(p) = "\\" /\ Len(p) >= 2
       THEN <<[any |-> FALSE, c |-> p[2]]>> \o RegExpAtoms(Tail(Tail(p)))
       ELSE <<[any |-> Head(p) = ".", c |-> Head(p)]>> \o RegExpAtoms(Tail(p))

\* the atoms match text at 0-based position i, ignoring case (flag i)
AtomsMatchAt(atoms, text, i) ==
  /\ i + Len(atoms) <= Len(text)
  /\ \A k \in 1..Len(atoms) :
       atoms[k].any \/ Lower(atoms[k].c) = Lower(text[i + k])

\* The loop  while ((match = regex.exec(text)) !== null)  with flag g: each
\* exec scans from lastIndex, and sets lastIndex to the end of the match.
RECURSIVE RegExpExecFrom(_, _, _)
RegExpExecFrom(atoms, text, lastIndex) ==
  LET hits == {i \in lastIndex..Len(text) : AtomsMatchAt(atoms, text, i)}
  IN  IF hits = {} \/ atoms = <<>> THEN <<>>
      ELSE LET i == Min(hits)
           IN  <<[index |-> i, text |-> SubSeq(text, i + 1, i + Len(atoms))]>>
               \o RegExpExecFrom(atoms, text, i + Len(atoms))

\* a slip: the scan resumes one character after the start of a match, so
\* that occurrences overlap
RECURSIVE RegExpExecOverlapFrom(_, _, _)
RegExpExecOverlapFrom(atoms, text, lastIndex) ==
  LET hits == {i \in lastIndex..Len(text) : AtomsMatchAt(atoms, text, i)}
  IN  IF hits = {} \/ atoms = <<>> THEN <<>>
      ELSE LET i == Min(hits)
           IN  <<[index |-> i, text |-> SubSeq(text, i + 1, i + Len(atoms))]>>
               \o RegExpExecOverlapFrom(atoms, text, i + 1)

RegExpExecAllOverlapping(pattern, text) ==
  RegExpExecOverlapFrom(RegExpAtoms(pattern), text, 0)

RegExpExecAll(pattern, text) == RegExpExecFrom(RegExpAtoms(pattern), text, 0)

(***************************************************************************)
(* JSON values                                                             *)
(***************************************************************************)
JNull     == [t |-> "null", v |-> <<>>]
JBool(b)  == [t |-> "boolean", v |-> b]
JNum(n)   == [t |-> "number", v |-> n]
JStr(s)   == [t |-> "string", v |-> s]
JArr(xs)  == [t |-> "array", v |-> xs]
\* an object is the sequence of its <<key, value>> entries
JObj(es)  == [t |-> "object", v |-> es]

IsContainer(x) == x.t \in {"array", "object"}

\* A property key that is a canonical array index ("0", "7", "12", not "01")
IsArrayIndex(key) ==
  /\ key # <<>>
  /\ \A i \in 1..Len(key) : \E d \in 1..10 : key[i] = Digits[d]
  /\ (Len(key) > 1 => key[1] # "0")

DigitValue(c) == (CHOOSE d \in 1..10 : Digits[d] = c) - 1

RECURSIVE StrToNum(_)
StrToNum(s) ==
  IF s = <<>> THEN 0
  ELSE 10 * StrToNum(SubSeq(s, 1, Len(s) - 1)) + DigitValue(s[Len(s)])

\* the entries whose keys are array indices, in ascending numeric order
RECURSIVE SortIndexEntries(_)
SortIndexEntries(es) ==
  IF es = <<>> THEN <<>>
  ELSE LET m == CHOOSE i \in 1..Len(es) :
                  \A j \in 1..Len(es) : StrToNum(es[i][1]) <= StrToNum(es[j][1])
       IN  <<es[m]>> \o
           SortIndexEntries([k \in 1..(Len(es) - 1) |->
                               IF k < m THEN es[k] ELSE es[k + 1]])

\* The own-property order of an object built by JSON.parse from entries
\* written in the order es: array-index keys first, ascending; then the other
\* keys in the order written.
OwnPropertyOrder(es) ==
  SortIndexEntries(SelectSeq(es, LAMBDA e : IsArrayIndex(e[1])))
  \o SelectSeq(es, LAMBDA e : ~IsArrayIndex(e[1]))

\* JSON.parse of a document whose text lists the members in the order of src
RECURSIVE JSONparse(_)
JSONparse(src) ==
  IF src.t = "array"
    THEN JArr([i \in 1..Len(src.v) |-> JSONparse(src.v[i])])
  ELSE IF src.t = "object"
    THEN JObj(OwnPropertyOrder(
                [i \in 1..Len(src.v) |-> <<src.v[i][1], JSONparse(src.v[i][2])>>]))
  ELSE src

\* Object.entries(value) / Object.keys(value)
ObjectEntries(value) == value.v
ObjectKeys(value) == [i \in 1..Len(value.v) |-> value.v[i][1]]

(***************************************************************************)
(* Paths                                                                   *)
(***************************************************************************)
Root == <<"r", "o", "o", "t">>

\* `${path}.${key}`
PathJoin(path, seg) == path \o <<".">> \o seg

\* path.substring(0, path.lastIndexOf("."))
TrimLastSegment(path) == substring0(path, lastIndexOf(path, <<".">>))

\* The paths the loop  while (currentPath.includes("."))  adds
RECURSIVE TrimmedAncestors(_)
TrimmedAncestors(path) ==
  IF includes(path, <<".">>)
    THEN {TrimLastSegment(path)} \cup TrimmedAncestors(TrimLastSegment(path))
    ELSE {}

\* getAllPaths(value, path): the path of the node, then those of its children
RECURSIVE getAllPaths(_, _)
RECURSIVE getAllPathsOfChildren(_, _, _)
\* a slip: only the paths of containers are collected
getAllPathsContainersOnly(value, path) ==
  IF IsContainer(value) THEN <<path>> \o getAllPathsOfChildren(value, path, 1)
  ELSE <<>>

getAllPaths(value, path) ==
  <<path>> \o (IF IsContainer(value) THEN getAllPathsOfChildren(value, path, 1)
               ELSE <<>>)
getAllPathsOfChildren(value, path, i) ==
  IF i > Len(value.v) THEN <<>>
  ELSE (IF value.t = "array"
          THEN getAllPaths(value.v[i], PathJoin(path, NumToStr(i - 1)))
          ELSE getAllPaths(ObjectEntries(value)[i][2],
                           PathJoin(path, ObjectEntries(value)[i][1])))
       \o getAllPathsOfChildren(value, path, i + 1)

Range(s) == {s[i] : i \in 1..Len(s)}

(***************************************************************************)
(* The search index engine: the search effect's findMatches                *)
(***************************************************************************)
KindKey       == <<"k", "e", "y">>
KindString    == <<"s", "t", "r", "i", "n", "g">>
KindPrimitive == <<"p", "r", "i", "m", "i", "t", "i", "v", "e">>

\* `${path}:${type}:${index}:${text.toLowerCase()}`
MatchId(path, type, index, text) ==
  path \o <<":">> \o type \o <<":">> \o NumToStr(index) \o <<":">> \o toLowerCase(text)

\* a slip: the occurrences of one text pushed right to left
PushedIdsRightToLeft(path, type, execs) ==
  [i \in 1..Len(execs) |->
     MatchId(path, type, Len(execs) - i, execs[Len(execs) + 1 - i].text)]

\* the identifiers pushed by one  while (regex.exec)  loop, matchIndex 0, 1, ...
PushedIds(path, type, execs) ==
  [i \in 1..Len(execs) |-> MatchId(path, type, i - 1, execs[i].text)]

EmptyAcc == [matches |-> {}, pathsToExpand |-> {}, count |-> 0, positions |-> <<>>]

\* what a string or primitive match adds to pathsToExpand
LeafPathsToExpand(path) == TrimmedAncestors(path)

\* what a key match of an entry of the object at path adds to pathsToExpand
KeyPathsToExpand(path) == {path}

\* a slip: one per matching node instead of one per occurrence
AddCountPerNode(count, matchIndex) == count + 1

\* count += matchIndex
AddCount(count, matchIndex) == count + matchIndex

\* the text of a leaf (string, number or boolean) as the engine scans it
LeafText(value) ==
  CASE value.t = "string"  -> value.v
    [] value.t = "number"  -> NumToStr(value.v)
    [] value.t = "boolean" -> BoolToStr(value.v)
    [] OTHER               -> <<>>

\* the string branch (typeof value === "string") and the primitive branch
\* (number or boolean) of findMatches
LeafBranch(value, path, searchLower, acc) ==
  IF /\ value.t \in {"string", "number", "boolean"}
     /\ includes(toLowerCase(LeafText(value)), searchLower)
  THEN LET execs == RegExpExecAll(escapeRegExp(searchLower), LeafText(value))
           type  == IF value.t = "string" THEN KindString ELSE KindPrimitive
       IN  [matches       |-> acc.matches \cup {path},
            pathsToExpand |-> acc.pathsToExpand \cup LeafPathsToExpand(path),
            count         |-> AddCount(acc.count, Len(execs)),
            positions     |-> acc.positions \o PushedIds(path, type, execs)]
  ELSE acc

\* the key check made for each entry of the object at path
KeyBranch(key, path, searchLower, acc) ==
  IF includes(toLowerCase(key), searchLower)
  THEN LET execs == RegExpExecAll(escapeRegExp(searchLower), key)
       IN  [matches       |-> acc.matches \cup {PathJoin(path, key)},
            pathsToExpand |-> acc.pathsToExpand \cup KeyPathsToExpand(path),
            count         |-> AddCount(acc.count, Len(execs)),
            positions     |-> acc.positions
                              \o PushedIds(PathJoin(path, key), KindKey, execs)]
  ELSE acc

\* a slip: the entries visited last to first
VisitOrderReversed(value) ==
  [i \in 1..Len(value.v) |-> value.v[Len(value.v) + 1 - i]]

\* the entries of an object in the order findMatches visits them
VisitOrder(value) == ObjectEntries(value)

RECURSIVE findMatches(_, _, _, _)
RECURSIVE findMatchesInChildren(_, _, _, _, _)
findMatches(value, path, searchLower, acc) ==
  IF value.t = "string" THEN LeafBranch(value, path, searchLower, acc)
  ELSE IF IsContainer(value)
    THEN findMatchesInChildren(value, path, searchLower, 1, acc)
  ELSE IF value.t \in {"number", "boolean"}
    THEN LeafBranch(value, path, searchLower, acc)
  ELSE acc
findMatchesInChildren(value, path, searchLower, i, acc) ==
  IF i > Len(value.v) THEN acc
  ELSE IF value.t = "array"
    THEN findMatchesInChildren(value, path, searchLower, i + 1,
           findMatches(value.v[i], PathJoin(path, NumToStr(i - 1)), searchLower, acc))
  ELSE LET key == VisitOrder(value)[i][1]
           val == VisitOrder(value)[i][2]
       IN  findMatchesInChildren(value, path, searchLower, i + 1,
             findMatches(val, PathJoin(path, key), searchLower,
                         KeyBranch(key, path, searchLower, acc)))

\* a slip: !searchTerm, without the trim
IsBlankNoTrim(term) == term = <<>>

\* !searchTerm.trim()
IsBlank(term) == trim(term) = <<>>

\* findMatches(data, "root") on fresh accumulators
Engine(value, term) == findMatches(value, Root, toLowerCase(term), EmptyAcc)

\* the paths the search effect adds for one element of matches
MatchPathsToAdd(path) == {TrimLastSegment(path), Root}

\* newExpanded: the expandedNodes of the render the effect closes over, plus
\* pathsToExpand, plus for every match its trimmed parent and root
MergeExpanded(closureExpanded, acc) ==
  closureExpanded \cup acc.pathsToExpand
    \cup UNION {MatchPathsToAdd(p) : p \in acc.matches}

(***************************************************************************)
(* The renderer: highlightMatches and renderValue.  A render is the        *)
(* sequence, in document order, of the highlighted units (<mark>) it       *)
(* produces.  st is the state the render closes over: searchTerm,          *)
(* matchPositions, currentMatchIndex, expandedNodes.                       *)
(***************************************************************************)
Quote == "\""

\* `"${key}"`
Quoted(key) == <<Quote>> \o key \o <<Quote>>

\* isCurrentMatch of highlightMatches
IsCurrentMatch(matchId, st) ==
  /\ Len(st.matchPositions) > 0
  /\ st.currentMatchIndex >= 0
  /\ st.currentMatchIndex < Len(st.matchPositions)
  /\ st.matchPositions[st.currentMatchIndex + 1] = matchId

\* the path highlightMatches is given for the key of a leaf entry (a string,
\* number, boolean or null value) of the object at path
LeafKeyHighlightPath(path, key) == path

\* The <mark> units of highlightMatches(text, path, type): for each one its
\* data-match-id and whether its className carries current-match.
highlightMatches(text, path, type, st) ==
  IF IsBlank(st.searchTerm) THEN <<>>
  ELSE LET execs == RegExpExecAll(escapeRegExp(st.searchTerm), text)
       IN  [i \in 1..Len(execs) |->
              LET matchId == MatchId(path, type, i - 1, execs[i].text)
              IN  [id |-> matchId, cur |-> IsCurrentMatch(matchId, st)]]

\* The units of one highlightMatches call with the place of the call in the
\* rendered tree: addr is the position of the node among its siblings at
\* each level, part is the key label of a container ("label"), the key of a
\* leaf entry ("key") or a leaf's text ("value"), ord the index in the text.
Units(hs, addr, part) ==
  [i \in 1..Len(hs) |->
     [addr |-> addr, part |-> part, ord |-> i - 1, id |-> hs[i].id, cur |-> hs[i].cur]]

\* toggleLabel: rendered when keyName is given and not the empty string
ToggleLabel(keyName, path, addr, st) ==
  IF keyName # <<>>
    THEN Units(highlightMatches(Quoted(keyName), path, KindKey, st), addr, "label")
    ELSE <<>>

RECURSIVE renderValue(_, _, _, _, _)
RECURSIVE renderChildren(_, _, _, _, _)
renderValue(value, path, keyName, addr, st) ==
  CASE value.t = "null" -> <<>>
    [] value.t \in {"boolean", "number"} ->
         Units(highlightMatches(LeafText(value), path, KindPrimitive, st), addr, "value")
    [] value.t = "string" ->
         Units(highlightMatches(value.v, path, KindString, st), addr, "value")
    [] OTHER ->
         IF Len(value.v) = 0 THEN <<>>
         ELSE ToggleLabel(keyName, path, addr, st)
              \o (IF path \in st.expandedNodes
                    THEN renderChildren(value, path, addr, 1, st)
                    ELSE <<>>)
renderChildren(value, path, addr, i, st) ==
  IF i > Len(value.v) THEN <<>>
  ELSE (IF value.t = "array"
          THEN renderValue(value.v[i], PathJoin(path, NumToStr(i - 1)), <<>>,
                           addr \o <<i>>, st)
        ELSE LET key == ObjectKeys(value)[i]
                 nestedValue == value.v[i][2]
             IN  IF IsContainer(nestedValue)
                   THEN renderValue(nestedValue, PathJoin(path, key), key,
                                    addr \o <<i>>, st)
                   ELSE Units(highlightMatches(Quoted(key),
                                               LeafKeyHighlightPath(path, key),
                                               KindKey, st),
                              addr \o <<i>>, "key")
                        \o renderValue(nestedValue, PathJoin(path, key), <<>>,
                                       addr \o <<i>>, st))
       \o renderChildren(value, path, addr, i + 1, st)

\* the paths of the toggle headers a render shows: the non-empty containers
\* all of whose container ancestors are expanded
RECURSIVE renderedToggles(_, _, _)
RECURSIVE renderedTogglesOfChildren(_, _, _, _)
renderedToggles(value, path, expanded) ==
  IF IsContainer(value) /\ Len(value.v) > 0
    THEN {path} \cup (IF path \in expanded
                        THEN renderedTogglesOfChildren(value, path, expanded, 1)
                        ELSE {})
    ELSE {}
renderedTogglesOfChildren(value, path, expanded, i) ==
  IF i > Len(value.v) THEN {}
  ELSE renderedToggles(IF value.t = "array" THEN value.v[i] ELSE value.v[i][2],
                       PathJoin(path, IF value.t = "array" THEN NumToStr(i - 1)
                                      ELSE ObjectKeys(value)[i]),
                       expanded)
       \cup renderedTogglesOfChildren(value, path, expanded, i + 1)

\* a slip: the children are rendered when the path is not expanded
RECURSIVE renderedNodesInverted(_, _, _, _)
RECURSIVE renderedNodes(_, _, _, _)
RECURSIVE renderedNodesOfChildren(_, _, _, _, _)
renderedNodesInverted(value, path, addr, expanded) ==
  IF ~IsContainer(value)
    THEN <<[addr |-> addr, path |-> path, shown |-> "leaf"]>>
  ELSE IF Len(value.v) = 0
    THEN <<[addr |-> addr, path |-> path,
            shown |-> IF value.t = "array" THEN "[]" ELSE "{}"]>>
  ELSE <<[addr |-> addr, path |-> path,
          shown |-> IF path \notin expanded THEN "open" ELSE "closed"]>>
       \o (IF path \notin expanded
             THEN renderedNodesOfChildren(value, path, addr, expanded, 1)
             ELSE <<>>)

\* a slip: an empty container gets a toggle like any other container
RECURSIVE renderedNodesNoEmptyCase(_, _, _, _)
renderedNodesNoEmptyCase(value, path, addr, expanded) ==
  IF ~IsContainer(value)
    THEN <<[addr |-> addr, path |-> path, shown |-> "leaf"]>>
  ELSE <<[addr |-> addr, path |-> path,
          shown |-> IF path \in expanded THEN "open" ELSE "closed"]>>
       \o (IF path \in expanded
             THEN renderedNodesOfChildren(value, path, addr, expanded, 1)
             ELSE <<>>)

\* The nodes renderValue(value, path) renders, in document order, each with
\* its place (addr), its path and what is shown for it: a leaf's text, the
\* inline [] or {} of an empty container, or the toggle header of a
\* non-empty container, open (children and closing brace below) or closed
\* (...).
renderedNodes(value, path, addr, expanded) ==
  IF ~IsContainer(value)
    THEN <<[addr |-> addr, path |-> path, shown |-> "leaf"]>>
  ELSE IF Len(value.v) = 0
    THEN <<[addr |-> addr, path |-> path,
            shown |-> IF value.t = "array" THEN "[]" ELSE "{}"]>>
  ELSE <<[addr |-> addr, path |-> path,
          shown |-> IF path \in expanded THEN "open" ELSE "closed"]>>
       \o (IF path \in expanded
             THEN renderedNodesOfChildren(value, path, addr, expanded, 1)
             ELSE <<>>)
renderedNodesOfChildren(value, path, addr, expanded, i) ==
  IF i > Len(value.v) THEN <<>>
  ELSE renderedNodes(IF value.t = "array" THEN value.v[i] ELSE value.v[i][2],
                     PathJoin(path, IF value.t = "array" THEN NumToStr(i - 1)
                                    ELSE ObjectKeys(value)[i]),
                     addr \o <<i>>, expanded)
       \o renderedNodesOfChildren(value, path, addr, expanded, i + 1)

(***************************************************************************)
(* The document (DOM) after a commit.  React keeps an element whose place  *)
(* and key (the match identifier) are unchanged, and writes its className  *)
(* only when the className of this render differs from the previous        *)
(* render's; a new element gets the className of this render.              *)
(***************************************************************************)
SameElement(e, u) ==
  e.addr = u.addr /\ e.part = u.part /\ e.ord = u.ord /\ e.id = u.id

Commit(oldDom, units) ==
  [i \in 1..Len(units) |->
     LET u == units[i]
         olds == {k \in 1..Len(oldDom) : SameElement(oldDom[k], u)}
     IN  [addr |-> u.addr, part |-> u.part, ord |-> u.ord, id |-> u.id,
          prop |-> u.cur,
          cur  |-> IF olds = {} THEN u.cur
                   ELSE LET o == oldDom[CHOOSE k \in olds : TRUE]
                        IN  IF o.prop # u.cur THEN u.cur ELSE o.cur]]

\* matchRefs.current: match identifier -> element.  live tells whether the
\* element is still in the document.
NoRefs == <<>>

Mounted(ref, newDom) == \E k \in 1..Len(newDom) : SameElement(newDom[k], ref)

\* elements removed by a commit stay in the map, detached
Detach(refs, newDom) ==
  [id \in DOMAIN refs |-> [refs[id] EXCEPT !.live = @ /\ Mounted(refs[id], newDom)]]

\* registerMatchRef(id, element), called for every unit of a commit in
\* document order
RECURSIVE RegisterFrom(_, _, _)
RegisterFrom(refs, newDom, i) ==
  IF i > Len(newDom) THEN refs
  ELSE LET e == newDom[i]
           r == [addr |-> e.addr, part |-> e.part, ord |-> e.ord, id |-> e.id,
                 live |-> TRUE]
       IN  RegisterFrom([id \in (DOMAIN refs) \cup {e.id} |->
                           IF id = e.id THEN r ELSE refs[id]],
                        newDom, i + 1)

AttachRefs(refs, newDom) == RegisterFrom(Detach(refs, newDom), newDom, 1)

(***************************************************************************)
(* Inputs: the documents the host loads (as written, members in source     *)
(* order) and the search terms it passes.                                  *)
(***************************************************************************)
\* {"a": {"b": "hello world", "c": 1}}
DocA ==
  JObj(<< << <<"a">>,
             JObj(<< << <<"b">>, JStr(<<"h", "e", "l", "l", "o", " ", "w", "o", "r", "l", "d">>) >>,
                     << <<"c">>, JNum(1) >> >>) >> >>)
\* [1, 2, 3]
DocB == JArr(<< JNum(1), JNum(2), JNum(3) >>)
\* {"a": [], "b": {}, "c": null}
DocD == JObj(<< << <<"a">>, JArr(<<>>) >>, << <<"b">>, JObj(<<>>) >>, << <<"c">>, JNull >> >>)
\* {"x": 1, "y": 11}
DocE == JObj(<< << <<"x">>, JNum(1) >>, << <<"y">>, JNum(11) >> >>)
\* {"x": {"y": {"a": 1}}}
DocDeep ==
  JObj(<< << <<"x">>, JObj(<< << <<"y">>, JObj(<< << <<"a">>, JNum(1) >> >>) >> >>) >> >>)
\* {"a": {"a": 1}}
DocNest == JObj(<< << <<"a">>, JObj(<< << <<"a">>, JNum(1) >> >>) >> >>)
\* {"2": "aAa", "1": "aAa"}
DocIdx ==
  JObj(<< << <<"2">>, JStr(<<"a", "A", "a">>) >>, << <<"1">>, JStr(<<"a", "A", "a">>) >> >>)
\* {"a.b": 1, "a": {"b": 1}}
DocDot ==
  JObj(<< << <<"a", ".", "b">>, JNum(1) >>,
          << <<"a">>, JObj(<< << <<"b">>, JNum(1) >> >>) >> >>)

\* {"a.b": 1, "a": {"b": [1]}}: the leaf "a.b" and the array "b" of "a" both
\* get the path root.a.b
DocShared ==
  JObj(<< << <<"a", ".", "b">>, JNum(1) >>,
          << <<"a">>, JObj(<< << <<"b">>, JArr(<< JNum(1) >>) >> >>) >> >>)

\* {"Ab": "aAa"}
DocKV == JObj(<< << <<"A", "b">>, JStr(<<"a", "A", "a">>) >> >>)
\* ["aAa"]
DocOverlap == JArr(<< JStr(<<"a", "A", "a">>) >>)

\* the documents and terms of the component's specification
Docs == {DocA, DocB, DocNest}

Terms == {<<>>, <<" ">>, <<"o">>, <<"1">>, <<"A">>}

\* The documents of the engine's specification: the documents above and
\* every array and object of at most MaxWidth members taken from GenLeaves,
\* with distinct keys from GenKeys in every order.
MaxWidth == 2

GenKeys == {<<"A", "b">>, <<"2">>, <<"1">>}

GenLeaves == {JNum(11), JStr(<<"a", "A", "a">>), JBool(FALSE)}

GenArrays ==
  UNION {{JArr(f) : f \in [1..n -> GenLeaves]} : n \in 1..MaxWidth}

GenObjects ==
  UNION {{JObj(f) : f \in {g \in [1..n -> GenKeys \X GenLeaves] :
                             \A i, j \in 1..n : i # j => g[i][1] # g[j][1]}}
         : n \in 1..MaxWidth}

\* {} and []
DocEmptyObject == JObj(<<>>)
DocEmptyArray  == JArr(<<>>)

EngineDocs ==
  {DocA, DocB, DocD, DocE, DocDeep, DocNest, DocIdx, DocDot}
    \cup GenArrays \cup GenObjects

EngineTerms ==
  {<<>>, <<" ">>, <<"o">>, <<"1">>, <<"A">>, <<"a", "a">>, <<".">>}

\* the documents and terms of the tree's specification
TreeDocs == EngineDocs \cup {DocEmptyObject, DocEmptyArray, DocShared}

TreeTerms == {<<>>, <<"A">>}

\* the document and terms of the navigation specification: "o" occurs twice,
\* "l" three times and "z" never in "hello world"
NavDocs == {DocA}

NavTerms == {<<"o">>, <<"l">>, <<"z">>}

\* pending deferred steps (setTimeout) at one time
MaxTimers == 1

\* documents passed after the one the component was mounted with
MaxLoads == 1

(***************************************************************************)
(* The host application: JSON text.  A text is a sequence of characters;   *)
(* JSON.stringify is computed, JSON.parse of a text is the value of the    *)
(* document the text writes (members in the parsed object's order).        *)
(***************************************************************************)
NewLine == "\n"

\* the separator-joined concatenation of the texts parts[1], parts[2], ...
RECURSIVE Join(_, _)
Join(parts, sep) ==
  IF parts = <<>> THEN <<>>
  ELSE IF Len(parts) = 1 THEN parts[1]
  ELSE parts[1] \o sep \o Join(Tail(parts), sep)

\* the indentation of one nesting level of JSON.stringify(value, null, 2)
IndentWidth == 2

RECURSIVE Spaces(_)
Spaces(n) == IF n = 0 THEN <<>> ELSE <<" ">> \o Spaces(n - 1)

\* JSON.stringify(value, null, gap) at nesting depth depth; gap = 0 is
\* JSON.stringify(value)
RECURSIVE JSONstringifyAt(_, _, _)
JSONstringifyAt(value, gap, depth) ==
  LET inner  == IF gap = 0 THEN <<>> ELSE <<NewLine>> \o Spaces(gap * (depth + 1))
      outer  == IF gap = 0 THEN <<>> ELSE <<NewLine>> \o Spaces(gap * depth)
      colon  == IF gap = 0 THEN <<":">> ELSE <<":", " ">>
  IN  CASE value.t = "null"    -> <<"n", "u", "l", "l">>
        [] value.t = "boolean" -> BoolToStr(value.v)
        [] value.t = "number"  -> NumToStr(value.v)
        [] value.t = "string"  -> Quoted(value.v)
        [] value.t = "array"   ->
             IF Len(value.v) = 0 THEN <<"[", "]">>
             ELSE <<"[">> \o inner
                  \o Join([i \in 1..Len(value.v) |->
                             JSONstringifyAt(value.v[i], gap, depth + 1)],
                          <<",">> \o inner)
                  \o outer \o <<"]">>
        [] OTHER ->
             IF Len(value.v) = 0 THEN <<"{", "}">>
             ELSE <<"{">> \o inner
                  \o Join([i \in 1..Len(value.v) |->
                             Quoted(value.v[i][1]) \o colon
                               \o JSONstringifyAt(value.v[i][2], gap, depth + 1)],
                          <<",">> \o inner)
                  \o outer \o <<"}">>

JSONstringify(value) == JSONstringifyAt(value, 0, 0)

\* JSON.stringify(value, null, 2)
JSONstringifyIndented(value) == JSONstringifyAt(value, IndentWidth, 0)

\* {"2": 1, "1": 1} and [1], as written
SrcObject == JObj(<< << <<"2">>, JNum(1) >>, << <<"1">>, JNum(1) >> >>)
SrcArray  == JArr(<< JNum(1) >>)
\* 0, a document that is not an object or an array
SrcZero   == JNum(0)

\* the documents a well-formed text of the model writes: the two above and
\* the order of members JSON.parse gives them
TextSources == {SrcObject, SrcArray, JSONparse(SrcObject), SrcZero}

\* {a: 1}
MalformedText == <<"{", "a", ":", " ", "1", "}">>

\* what the user types or pastes, and what a file holds
InputTexts ==
  {<<>>, <<" ">>, MalformedText, JSONstringify(SrcObject), JSONstringify(SrcArray)}
FileTexts ==
  {MalformedText, JSONstringify(SrcObject), JSONstringifyIndented(SrcArray),
   JSONstringify(SrcZero)}

\* the message of the SyntaxError JSON.parse throws, and of the error a
\* rejected dialog or read carries
SyntaxErrorMessage == "SyntaxError"
IOErrorMessage == "IOError"

\* JSON.parse(text): the value, or the SyntaxError thrown.  A text is
\* well-formed when it writes one of the documents, compactly or indented.
Writes(text, src) ==
  text = JSONstringify(src) \/ text = JSONstringifyIndented(src)

JSONparseText(text) ==
  IF \E src \in TextSources : Writes(text, src)
    THEN [ok |-> TRUE,
          value |-> JSONparse(CHOOSE src \in TextSources : Writes(text, src))]
    ELSE [ok |-> FALSE, message |-> SyntaxErrorMessage]

\* the truthiness of a parsed value or null (no document)
Truthy(value) ==
  CASE value.t = "null"    -> FALSE
    [] value.t = "boolean" -> value.v
    [] value.t = "number"  -> value.v # 0
    [] value.t = "string"  -> value.v # <<>>
    [] OTHER               -> TRUE

\* the paths the file dialog returns
DialogPaths == {<<"/", "d", "/", "a">>, <<"d", "\\", "b">>, <<"d", "/">>}

Untitled == <<"U", "n", "t", "i", "t", "l", "e", "d">>

\* selected.split(/[/\\]/).pop() || "Untitled"
FileName(selected) ==
  LET seps == {i \in 1..Len(selected) : selected[i] \in {"/", "\\"}}
      last == IF seps = {} THEN selected
              ELSE SubSeq(selected, Max(seps) + 1, Len(selected))
  IN  IF last = <<>> THEN Untitled ELSE last

\* "Invalid JSON: " + message, and so on: the prefix and the message
ErrorText(prefix, message) == <<prefix, message>>
NoError == <<>>

(***************************************************************************)
(* State                                                                   *)
(***************************************************************************)
VARIABLES
  mounted,            \* the component is mounted
  source,             \* the document as written (prop data before JSON.parse)
  data,               \* prop data: the parsed document
  searchTerm,         \* prop searchTerm
  expandedNodes,      \* useState: Expanded-Set
  matchCount,         \* useState
  currentMatchIndex,  \* useState
  matchPositions,     \* useState: orderedMatchIds
  matchRefs,          \* useRef: the anchor cache
  dom,                \* the <mark> elements of the document, in document order
  timers,             \* the deferred steps scheduled and not yet run
  loads,              \* how many documents the host has passed since the mount
  lastOp,             \* the last event handled
  program,            \* which host runs: the tabbed App or the single-document App
  tabs,               \* App useState: the tabs, in display order
  activeTabId,        \* App useState
  error,              \* useState of either host: the message shown
  single,             \* the single-document App's useState values
  pending,            \* the openJsonFile calls suspended on the dialog or the read
  showSearchBar,      \* App useState: the search-bar flag
  renamingTabId,      \* App useState: the tab whose name is being edited
  clock,              \* the last value Date.now() returned
  appOp               \* the last event the host handled

\* the state of the host application
appVars == <<program, tabs, activeTabId, error, single, pending, showSearchBar,
             renamingTabId, clock, appOp>>

\* the state of the tree component
treeVars == <<mounted, source, data, searchTerm, expandedNodes, matchCount,
              currentMatchIndex, matchPositions, matchRefs, dom, timers, loads, lastOp>>

vars == <<mounted, source, data, searchTerm, expandedNodes, matchCount,
          currentMatchIndex, matchPositions, matchRefs, dom, timers, loads, lastOp,
          program, tabs, activeTabId, error, single, pending, showSearchBar,
          renamingTabId, clock, appOp>>

\* the state a render closes over
RenderState(term, positions, index, expanded) ==
  [searchTerm |-> term, matchPositions |-> positions,
   currentMatchIndex |-> index, expandedNodes |-> expanded]

Render(value, term, positions, index, expanded) ==
  renderValue(value, Root, <<>>, <<>>, RenderState(term, positions, index, expanded))

AllPaths(value) == Range(getAllPaths(value, Root))

(***************************************************************************)
(* The effects of one commit.  Each yields the state updates it queues.    *)
(***************************************************************************)
\* the expand-all effect, deps [data]: the value it sets, given the value s
\* queued so far
ExpandAllEffect(value, s) == AllPaths(value)

\* a slip: the identifiers of a run are appended to those of the run before
SearchEffectAppends(value, term, closureExpanded, q) ==
  IF IsBlank(term)
    THEN [q EXCEPT !.matchCount = 0, !.matchPositions = <<>>,
                   !.currentMatchIndex = 0]
    ELSE LET acc == Engine(value, term)
         IN  [q EXCEPT !.matchCount = q.matchCount + acc.count,
                       !.matchPositions = q.matchPositions \o acc.positions,
                       !.matchRefs = NoRefs,
                       !.expandedNodes =
                          IF acc.matches # {}
                            THEN MergeExpanded(closureExpanded, acc)
                            ELSE q.expandedNodes]

\* The search effect, deps [searchTerm, data].  closureExpanded is the
\* expandedNodes of the render whose effects run; q holds the updates queued
\* by the effects before it.
SearchEffect(value, term, closureExpanded, q) ==
  IF IsBlank(term)
    THEN [q EXCEPT !.matchCount = 0, !.matchPositions = <<>>,
                   !.currentMatchIndex = 0]
    ELSE LET acc == Engine(value, term)
         IN  [q EXCEPT !.matchCount = acc.count,
                       !.matchPositions = acc.positions,
                       !.matchRefs = NoRefs,
                       !.expandedNodes =
                          IF acc.matches # {}
                            THEN MergeExpanded(closureExpanded, acc)
                            ELSE q.expandedNodes]

\* a slip: the reset effect leaves the index where it was
ResetEffectKeepIndex(q) == [q EXCEPT !.matchRefs = NoRefs]

\* the reset effect, deps [searchTerm]
ResetEffect(q) == [q EXCEPT !.currentMatchIndex = 0, !.matchRefs = NoRefs]

\* The state updates queued when the effects of a commit start: nothing is
\* queued yet, and the ref callbacks of the commit dom1 have run.
QueuedAtCommit(dom1) ==
  [expandedNodes |-> expandedNodes, matchCount |-> matchCount,
   currentMatchIndex |-> currentMatchIndex, matchPositions |-> matchPositions,
   matchRefs |-> AttachRefs(matchRefs, dom1)]

\* The effects of the commit in the order they are defined: the reset effect
\* if the term changed, the expand-all effect if the document changed, the
\* search effect (which closes over the expandedNodes of the render).
RunEffects(value, term, dataChanged, termChanged, q0) ==
  SearchEffect(value, term, expandedNodes,
               IF dataChanged
                 THEN [(IF termChanged THEN ResetEffect(q0) ELSE q0)
                         EXCEPT !.expandedNodes = ExpandAllEffect(value, q0)]
                 ELSE IF termChanged THEN ResetEffect(q0) ELSE q0)

\* the commit dom2 of the render of the updated state q, and its ref callbacks
Committed(q, dom2) ==
  [q EXCEPT !.matchRefs = AttachRefs(q.matchRefs, dom2)] @@ [dom |-> dom2]

\* the render and commit of the state q the effects have set
RenderUpdated(value, term, dom1, q) ==
  Committed(q, Commit(dom1, Render(value, term, q.matchPositions,
                                   q.currentMatchIndex, q.expandedNodes)))

SettleFrom(value, term, dataChanged, termChanged, dom1) ==
  RenderUpdated(value, term, dom1,
                RunEffects(value, term, dataChanged, termChanged, QueuedAtCommit(dom1)))

\* A render with new props, its commit, the effects whose deps changed, and
\* the render and commit of the state they set.
Settle(value, term, dataChanged, termChanged) ==
  SettleFrom(value, term, dataChanged, termChanged,
             Commit(dom, Render(value, term, matchPositions, currentMatchIndex,
                                expandedNodes)))

ApplySettle(r) ==
  /\ expandedNodes' = r.expandedNodes
  /\ matchCount' = r.matchCount
  /\ currentMatchIndex' = r.currentMatchIndex
  /\ matchPositions' = r.matchPositions
  /\ matchRefs' = r.matchRefs
  /\ dom' = r.dom

\* a render and commit after a state update that changes no prop
Rerender(index, expanded) ==
  LET d == Commit(dom, Render(data, searchTerm, matchPositions, index, expanded))
  IN  /\ dom' = d
      /\ matchRefs' = AttachRefs(matchRefs, d)

(***************************************************************************)
(* Events                                                                  *)
(***************************************************************************)
\* Date.now() when App is first rendered
StartTime == 0

\* "tab-" + Date.now()
TabId(now) == <<"tab-", now>>

\* useState<string | null>(null): no tab is being renamed
NoTab == <<>>

\* the tab App starts with, and addNewTab adds
NewTab(now) ==
  [id |-> TabId(now), name |-> Untitled, jsonInput |-> <<>>, parsedJson |-> JNull,
   isEditing |-> TRUE, searchTerm |-> <<>>]

\* the useState initial values of the single-document App
SingleStart ==
  [parsedJson |-> JNull, jsonInput |-> <<>>, searchTerm |-> <<>>,
   showInputView |-> TRUE]

\* the host p has just been rendered for the first time
AppStart(p) ==
  /\ program = p
  /\ tabs = <<NewTab(StartTime)>>
  /\ activeTabId = TabId(StartTime)
  /\ error = NoError
  /\ single = SingleStart
  /\ pending = <<>>
  /\ showSearchBar = FALSE
  /\ renamingTabId = NoTab
  /\ clock = StartTime
  /\ appOp = "init"

Init ==
  /\ mounted = FALSE
  /\ source = JNull
  /\ data = JNull
  /\ searchTerm = <<>>
  /\ expandedNodes = {}
  /\ matchCount = 0
  /\ currentMatchIndex = 0
  /\ matchPositions = <<>>
  /\ matchRefs = NoRefs
  /\ dom = <<>>
  /\ timers = <<>>
  /\ loads = 0
  /\ lastOp = "init"
  /\ AppStart("App")

\* the host renders <CollapsibleJSON data searchTerm> for the first time
Mount(d, t) ==
  /\ ~mounted
  /\ mounted' = TRUE
  /\ source' = d
  /\ data' = JSONparse(d)
  /\ searchTerm' = t
  /\ ApplySettle(Settle(JSONparse(d), t, TRUE, TRUE))
  /\ lastOp' = "mount"
  /\ UNCHANGED appVars
  /\ UNCHANGED <<timers, loads>>

\* the host passes another search term
SetSearchTerm(t) ==
  /\ mounted
  /\ t # searchTerm
  /\ searchTerm' = t
  /\ ApplySettle(Settle(data, t, FALSE, TRUE))
  /\ lastOp' = "term"
  /\ UNCHANGED appVars
  /\ UNCHANGED <<mounted, source, data, timers, loads>>

\* the host passes another document (a new object, whatever its content)
SetData(d) ==
  /\ mounted
  /\ loads < MaxLoads
  /\ loads' = loads + 1
  /\ source' = d
  /\ data' = JSONparse(d)
  /\ ApplySettle(Settle(JSONparse(d), searchTerm, TRUE, FALSE))
  /\ lastOp' = "data"
  /\ UNCHANGED appVars
  /\ UNCHANGED <<mounted, searchTerm, timers>>

\* a slip: the path is added whether or not it was a member
toggleNodeAddOnly(path) ==
  /\ mounted
  /\ path \in renderedToggles(data, Root, expandedNodes)
  /\ expandedNodes' = expandedNodes \cup {path}
  /\ Rerender(currentMatchIndex, expandedNodes')
  /\ lastOp' = "toggle"
  /\ UNCHANGED appVars
  /\ UNCHANGED <<mounted, source, data, searchTerm, matchCount,
                 currentMatchIndex, matchPositions, timers, loads>>

toggleNode(path) ==
  /\ mounted
  /\ path \in renderedToggles(data, Root, expandedNodes)
  /\ expandedNodes' = IF path \in expandedNodes THEN expandedNodes \ {path}
                      ELSE expandedNodes \cup {path}
  /\ Rerender(currentMatchIndex, expandedNodes')
  /\ lastOp' = "toggle"
  /\ UNCHANGED appVars
  /\ UNCHANGED <<mounted, source, data, searchTerm, matchCount,
                 currentMatchIndex, matchPositions, timers, loads>>

collapseAll ==
  /\ mounted
  /\ expandedNodes' = {}
  /\ Rerender(currentMatchIndex, {})
  /\ lastOp' = "collapseAll"
  /\ UNCHANGED appVars
  /\ UNCHANGED <<mounted, source, data, searchTerm, matchCount,
                 currentMatchIndex, matchPositions, timers, loads>>

expandAll ==
  /\ mounted
  /\ expandedNodes' = AllPaths(data)
  /\ Rerender(currentMatchIndex, AllPaths(data))
  /\ lastOp' = "expandAll"
  /\ UNCHANGED appVars
  /\ UNCHANGED <<mounted, source, data, searchTerm, matchCount,
                 currentMatchIndex, matchPositions, timers, loads>>

Undefined == <<"undefined">>

\* matchPositions[index] of the handler's closure
PositionAt(positions, index) ==
  IF index + 1 \in DOMAIN positions THEN positions[index + 1] ELSE Undefined

\* goToNextMatch / goToPrevMatch with the index they compute
GoTo(index, op) ==
  /\ mounted
  /\ ~IsBlank(searchTerm)
  /\ Len(timers) < MaxTimers
  /\ IF matchCount = 0
       THEN UNCHANGED <<currentMatchIndex, matchRefs, dom, timers>>
       ELSE /\ currentMatchIndex' = index
            /\ Rerender(index, expandedNodes)
            /\ timers' = Append(timers, [matchId |-> PositionAt(matchPositions, index),
                                         index |-> index])
  /\ lastOp' = op
  /\ UNCHANGED appVars
  /\ UNCHANGED <<mounted, source, data, searchTerm, expandedNodes, matchCount,
                 matchPositions, loads>>

\* a slip: the index advances without wrapping
NextIndexNoWrap == IF matchCount = 0 THEN 0 ELSE currentMatchIndex + 1

NextIndex == IF matchCount = 0 THEN 0 ELSE (currentMatchIndex + 1) % matchCount
PrevIndex ==
  IF matchCount = 0 THEN 0 ELSE (currentMatchIndex - 1 + matchCount) % matchCount

goToNextMatch == GoTo(NextIndex, "next")
goToPrevMatch == GoTo(PrevIndex, "prev")

\* document.querySelectorAll(".current-match").forEach(remove); el.classList.add
MarkOnly(d, k) == [i \in 1..Len(d) |-> [d[i] EXCEPT !.cur = (i = k)]]

\* a slip: the deferred step goes by the index alone
LocateStepByIndex(d, refs, timer) ==
  IF Len(d) > 0 THEN MarkOnly(d, Min({timer.index, Len(d) - 1}) + 1) ELSE d

\* The deferred step of goToNextMatch / goToPrevMatch: the anchor cache, else
\* the first element carrying the identifier, else the element at
\* min(index, number of highlights - 1).
LocateStep(d, refs, timer) ==
  IF timer.matchId \in DOMAIN refs
    THEN LET r == refs[timer.matchId]
             at == {k \in 1..Len(d) : SameElement(d[k], r)}
         IN  IF r.live /\ at # {} THEN MarkOnly(d, CHOOSE k \in at : TRUE)
             ELSE MarkOnly(d, 0)
  ELSE LET byId == {k \in 1..Len(d) : d[k].id = timer.matchId}
       IN  IF byId # {} THEN MarkOnly(d, Min(byId))
           ELSE IF Len(d) > 0
             THEN MarkOnly(d, Min({timer.index, Len(d) - 1}) + 1)
             ELSE d

RunTimer ==
  /\ timers # <<>>
  /\ dom' = LocateStep(dom, matchRefs, Head(timers))
  /\ timers' = Tail(timers)
  /\ lastOp' = "timer"
  /\ UNCHANGED appVars
  /\ UNCHANGED <<mounted, source, data, searchTerm, expandedNodes, matchCount,
                 currentMatchIndex, matchPositions, matchRefs, loads>>

Next ==
  \/ \E d \in Docs, t \in Terms : Mount(d, t)
  \/ \E t \in Terms : SetSearchTerm(t)
  \/ \E d \in Docs : SetData(d)
  \/ \E p \in AllPaths(data) : toggleNode(p)
  \/ collapseAll
  \/ expandAll
  \/ goToNextMatch
  \/ goToPrevMatch
  \/ RunTimer

Spec == Init /\ [][Next]_vars

\* The engine on many documents: the component is mounted with any document
\* and term, the term changes and the tree is collapsed.
NextEngine ==
  \/ \E d \in EngineDocs, t \in EngineTerms : Mount(d, t)
  \/ \E t \in EngineTerms : SetSearchTerm(t)
  \/ collapseAll

SpecEngine == Init /\ [][NextEngine]_vars

\* The tree on many documents: the component is mounted with any document,
\* nodes are toggled and the tree is expanded and collapsed as a whole.
NextTree ==
  \/ \E d \in TreeDocs, t \in TreeTerms : Mount(d, t)
  \/ \E p \in AllPaths(data) : toggleNode(p)
  \/ collapseAll
  \/ expandAll

SpecTree == Init /\ [][NextTree]_vars

\* The component with navigation between a search and its deferred steps
NextNav ==
  \/ \E d \in NavDocs, t \in NavTerms : Mount(d, t)
  \/ \E t \in NavTerms : SetSearchTerm(t)
  \/ \E d \in NavDocs : SetData(d)
  \/ \E p \in AllPaths(data) : toggleNode(p)
  \/ collapseAll
  \/ expandAll
  \/ goToNextMatch
  \/ goToPrevMatch
  \/ RunTimer

SpecNav == Init /\ [][NextNav]_vars

(***************************************************************************)
(* The host application.  A handler closes over the tabs and activeTabId   *)
(* of the render it belongs to; setTabs(value) calls of one handler are    *)
(* applied in order, so the last value set is the state after it.          *)
(***************************************************************************)
\* openJsonFile calls suspended at one time
MaxPending == 1

\* tabs.find((tab) => tab.id === activeTabId) || tabs[0]
ActiveTab(ts, id) ==
  IF \E i \in 1..Len(ts) : ts[i].id = id
    THEN ts[Min({i \in 1..Len(ts) : ts[i].id = id})]
    ELSE ts[1]

\* the value updateActiveTab(updates) passes to setTabs: { ...tab, ...updates }
\* for the tabs with the active id
updateActiveTab(ts, id, updates) ==
  [i \in 1..Len(ts) |-> IF ts[i].id = id THEN updates @@ ts[i] ELSE ts[i]]

\* the state after the setTabs(value) calls of one handler
AfterSetTabs(ts, calls) == IF calls = <<>> THEN ts ELSE calls[Len(calls)]

\* App: handleJsonInput, the onChange of the textarea of edit mode
handleJsonInput(input) ==
  /\ program = "App"
  /\ ActiveTab(tabs, activeTabId).isEditing
  /\ IF trim(input) = <<>>
       THEN /\ tabs' = updateActiveTab(tabs, activeTabId,
                                       [jsonInput |-> input, parsedJson |-> JNull])
            /\ error' = NoError
       ELSE IF JSONparseText(input).ok
         THEN /\ tabs' = updateActiveTab(tabs, activeTabId,
                            [jsonInput |-> input,
                             parsedJson |-> JSONparseText(input).value])
              /\ error' = NoError
         ELSE /\ tabs' = updateActiveTab(tabs, activeTabId, [jsonInput |-> input])
              /\ error' = ErrorText("Invalid JSON: ", JSONparseText(input).message)
  /\ appOp' = "input"
  /\ UNCHANGED <<renamingTabId, clock, showSearchBar, program, activeTabId, single, pending>>
  /\ UNCHANGED treeVars

\* single-document App: handleJsonInput
handleJsonInputSingle(input) ==
  /\ program = "SingleApp"
  /\ single.showInputView
  /\ IF trim(input) = <<>>
       THEN /\ single' = [single EXCEPT !.jsonInput = input, !.parsedJson = JNull]
            /\ error' = NoError
       ELSE IF JSONparseText(input).ok
         THEN /\ single' = [single EXCEPT !.jsonInput = input,
                                          !.parsedJson = JSONparseText(input).value,
                                          !.showInputView = FALSE]
              /\ error' = NoError
         ELSE /\ single' = [single EXCEPT !.jsonInput = input, !.parsedJson = JNull]
              /\ error' = ErrorText("Invalid JSON: ", JSONparseText(input).message)
  /\ appOp' = "input"
  /\ UNCHANGED <<renamingTabId, clock, showSearchBar, program, tabs, activeTabId, pending>>
  /\ UNCHANGED treeVars

\* openJsonFile up to its first await: the call is suspended on the dialog,
\* holding the tabs and activeTabId of the render it was made from
openJsonFile ==
  /\ IF program = "App" THEN ActiveTab(tabs, activeTabId).isEditing
     ELSE single.showInputView
  /\ Len(pending) < MaxPending
  /\ pending' = Append(pending, [stage |-> "dialog", tabs |-> tabs,
                                 activeTabId |-> activeTabId, selected |-> <<>>])
  /\ appOp' = "open"
  /\ UNCHANGED <<renamingTabId, clock, showSearchBar, program, tabs, activeTabId, error, single>>
  /\ UNCHANGED treeVars

Without(seq, k) == [i \in 1..(Len(seq) - 1) |-> IF i < k THEN seq[i] ELSE seq[i + 1]]

\* the dialog or the read rejects: the outer catch
OpenRejected(k) ==
  /\ k \in DOMAIN pending
  /\ error' = ErrorText("Error opening file: ", IOErrorMessage)
  /\ pending' = Without(pending, k)
  /\ appOp' = "openRejected"
  /\ UNCHANGED <<renamingTabId, clock, showSearchBar, program, tabs, activeTabId, single>>
  /\ UNCHANGED treeVars

\* the dialog is dismissed: selected is null
DialogCancelled(k) ==
  /\ k \in DOMAIN pending
  /\ pending[k].stage = "dialog"
  /\ pending' = Without(pending, k)
  /\ appOp' = "openCancelled"
  /\ UNCHANGED <<renamingTabId, clock, showSearchBar, program, tabs, activeTabId, error, single>>
  /\ UNCHANGED treeVars

\* the dialog returns a path: the call is suspended on the read
DialogReturned(k, selected) ==
  /\ k \in DOMAIN pending
  /\ pending[k].stage = "dialog"
  /\ pending' = [pending EXCEPT ![k].stage = "read", ![k].selected = selected]
  /\ appOp' = "openSelected"
  /\ UNCHANGED <<renamingTabId, clock, showSearchBar, program, tabs, activeTabId, error, single>>
  /\ UNCHANGED treeVars

\* App: the read returns the content of the file
ReadReturned(k, content) ==
  /\ program = "App"
  /\ k \in DOMAIN pending
  /\ pending[k].stage = "read"
  /\ IF JSONparseText(content).ok
       THEN /\ tabs' = updateActiveTab(pending[k].tabs, pending[k].activeTabId,
                          [name |-> FileName(pending[k].selected),
                           jsonInput |-> content,
                           parsedJson |-> JSONparseText(content).value,
                           isEditing |-> FALSE])
            /\ error' = NoError
       ELSE /\ error' = ErrorText("Failed to parse JSON: ",
                                  JSONparseText(content).message)
            /\ UNCHANGED tabs
  /\ pending' = Without(pending, k)
  /\ appOp' = "openRead"
  /\ UNCHANGED <<renamingTabId, clock, showSearchBar, program, activeTabId, single>>
  /\ UNCHANGED treeVars

\* single-document App: the read returns the content of the file
ReadReturnedSingle(k, content) ==
  /\ program = "SingleApp"
  /\ k \in DOMAIN pending
  /\ pending[k].stage = "read"
  /\ IF JSONparseText(content).ok
       THEN /\ single' = [single EXCEPT !.jsonInput = content,
                                        !.parsedJson = JSONparseText(content).value,
                                        !.showInputView = FALSE]
            /\ error' = NoError
       ELSE /\ single' = [single EXCEPT !.jsonInput = content, !.parsedJson = JNull]
            /\ error' = ErrorText("Failed to parse JSON: ",
                                  JSONparseText(content).message)
  /\ pending' = Without(pending, k)
  /\ appOp' = "openRead"
  /\ UNCHANGED <<renamingTabId, clock, showSearchBar, program, tabs, activeTabId>>
  /\ UNCHANGED treeVars

\* the setTabs calls of formatJson
formatJson(ts, id) ==
  IF Truthy(ActiveTab(ts, id).parsedJson)
    THEN <<updateActiveTab(ts, id,
             [jsonInput |-> JSONstringifyIndented(ActiveTab(ts, id).parsedJson)])>>
    ELSE <<>>

\* App: toggleView, from the Preview button of edit mode (rendered when the
\* tab has a parsed document) or from the Edit control of the tree (rendered
\* in view mode when the parsed document is an object or an array)
toggleView ==
  /\ program = "App"
  /\ Truthy(ActiveTab(tabs, activeTabId).parsedJson)
  /\ ActiveTab(tabs, activeTabId).isEditing
       \/ IsContainer(ActiveTab(tabs, activeTabId).parsedJson)
  /\ tabs' = AfterSetTabs(tabs,
       (IF ~ActiveTab(tabs, activeTabId).isEditing
          THEN formatJson(tabs, activeTabId) ELSE <<>>)
       \o <<updateActiveTab(tabs, activeTabId,
              [isEditing |-> ~ActiveTab(tabs, activeTabId).isEditing])>>)
  /\ appOp' = IF ActiveTab(tabs, activeTabId).isEditing THEN "toView" ELSE "toEdit"
  /\ UNCHANGED <<renamingTabId, clock, showSearchBar, program, activeTabId, error, single, pending>>
  /\ UNCHANGED treeVars

\* single-document App: toggleView, the Show Input / Hide Input button
toggleViewSingle ==
  /\ program = "SingleApp"
  /\ Truthy(single.parsedJson) /\ IsContainer(single.parsedJson)
  /\ single' = [single EXCEPT !.showInputView = ~single.showInputView]
  /\ appOp' = "toggleView"
  /\ UNCHANGED <<renamingTabId, clock, showSearchBar, program, tabs, activeTabId, error, pending>>
  /\ UNCHANGED treeVars

\* App: loadNewJson, the New JSON button of edit mode
loadNewJson ==
  /\ program = "App"
  /\ ActiveTab(tabs, activeTabId).isEditing
  /\ tabs' = updateActiveTab(tabs, activeTabId,
                [jsonInput |-> <<>>, parsedJson |-> JNull, isEditing |-> TRUE,
                 searchTerm |-> <<>>])
  /\ error' = NoError
  /\ appOp' = "new"
  /\ UNCHANGED <<renamingTabId, clock, showSearchBar, program, activeTabId, single, pending>>
  /\ UNCHANGED treeVars

\* single-document App: loadNewJson, the Load New JSON button of the viewer
loadNewJsonSingle ==
  /\ program = "SingleApp"
  /\ Truthy(single.parsedJson) /\ IsContainer(single.parsedJson)
  /\ ~single.showInputView
  /\ single' = [single EXCEPT !.showInputView = TRUE]
  /\ appOp' = "new"
  /\ UNCHANGED <<renamingTabId, clock, showSearchBar, program, tabs, activeTabId, error, pending>>
  /\ UNCHANGED treeVars

\* App: handleKeyDown, the keydown listener the effect registers on the
\* document; the effect's dependencies are the values the listener reads, so
\* the listener in force is the one of the last render.  chord: the event is
\* Cmd+F or Ctrl+F.  The delayed focus() of the search input changes no state.
handleKeyDown(chord) ==
  /\ program = "App"
  /\ showSearchBar' =
       IF /\ ~ActiveTab(tabs, activeTabId).isEditing
          /\ Truthy(ActiveTab(tabs, activeTabId).parsedJson)
          /\ chord
         THEN ~showSearchBar
         ELSE showSearchBar
  /\ appOp' = IF chord THEN "chord" ELSE "key"
  /\ UNCHANGED <<renamingTabId, clock, program, tabs, activeTabId, error, single, pending>>
  /\ UNCHANGED treeVars

\* App: onToggleSearch, the Search button of the tree (rendered in view
\* mode when the parsed document is an object or an array)
onToggleSearch ==
  /\ program = "App"
  /\ ~ActiveTab(tabs, activeTabId).isEditing
  /\ Truthy(ActiveTab(tabs, activeTabId).parsedJson)
  /\ IsContainer(ActiveTab(tabs, activeTabId).parsedJson)
  /\ showSearchBar' = ~showSearchBar
  /\ appOp' = "search"
  /\ UNCHANGED <<renamingTabId, clock, program, tabs, activeTabId, error, single, pending>>
  /\ UNCHANGED treeVars

InitApp ==
  /\ mounted = FALSE
  /\ source = JNull
  /\ data = JNull
  /\ searchTerm = <<>>
  /\ expandedNodes = {}
  /\ matchCount = 0
  /\ currentMatchIndex = 0
  /\ matchPositions = <<>>
  /\ matchRefs = NoRefs
  /\ dom = <<>>
  /\ timers = <<>>
  /\ loads = 0
  /\ lastOp = "init"
  /\ \E p \in {"App", "SingleApp"} : AppStart(p)

NextApp ==
  \/ \E input \in InputTexts : handleJsonInput(input)
  \/ \E input \in InputTexts : handleJsonInputSingle(input)
  \/ openJsonFile
  \/ \E k \in 1..MaxPending : OpenRejected(k)
  \/ \E k \in 1..MaxPending : DialogCancelled(k)
  \/ \E k \in 1..MaxPending, selected \in DialogPaths : DialogReturned(k, selected)
  \/ \E k \in 1..MaxPending, content \in FileTexts : ReadReturned(k, content)
  \/ \E k \in 1..MaxPending, content \in FileTexts : ReadReturnedSingle(k, content)
  \/ toggleView
  \/ toggleViewSingle
  \/ loadNewJson
  \/ loadNewJsonSingle
  \/ \E chord \in BOOLEAN : handleKeyDown(chord)
  \/ onToggleSearch

SpecApp == InitApp /\ [][NextApp]_vars

(***************************************************************************)
(* The tab bar of App.  The handlers of one render close over its tabs,    *)
(* activeTabId and renamingTabId; only handleDragEnd passes setTabs a      *)
(* function of the tabs in force.                                          *)
(***************************************************************************)
\* tabs addNewTab adds in one behaviour
MaxNewTabs == 1

\* the ids of the tabs rendered
TabIds(ts) == {ts[i].id : i \in 1..Len(ts)}

\* addNewTab, the + button.  Date.now() is later than at the last tab made.
addNewTab ==
  /\ program = "App"
  /\ clock < StartTime + MaxNewTabs
  /\ clock' = clock + 1
  /\ tabs' = Append(tabs, NewTab(clock'))
  /\ activeTabId' = TabId(clock')
  /\ appOp' = "addTab"
  /\ UNCHANGED <<renamingTabId, showSearchBar, program, error, single, pending>>
  /\ UNCHANGED treeVars

\* closeTab(tabId, e), the x button of a tab
closeTab(tabId) ==
  /\ program = "App"
  /\ tabId \in TabIds(tabs)
  /\ IF Len(tabs) = 1
       THEN UNCHANGED <<tabs, activeTabId, renamingTabId>>
       ELSE /\ tabs' = SelectSeq(tabs, LAMBDA tab : tab.id # tabId)
            /\ activeTabId' = IF tabId = activeTabId THEN tabs'[1].id
                               ELSE activeTabId
            /\ renamingTabId' = IF tabId = renamingTabId THEN NoTab
                                 ELSE renamingTabId
  /\ appOp' = "closeTab"
  /\ UNCHANGED <<clock, showSearchBar, program, error, single, pending>>
  /\ UNCHANGED treeVars

\* onClick of a tab: setActiveTabId(tab.id)
onClickTab(tabId) ==
  /\ program = "App"
  /\ tabId \in TabIds(tabs)
  /\ activeTabId' = tabId
  /\ appOp' = "selectTab"
  /\ UNCHANGED <<renamingTabId, clock, showSearchBar, program, tabs, error, single,
                 pending>>
  /\ UNCHANGED treeVars

\* startRenaming(tabId), the double click on the name of a tab
startRenaming(tabId) ==
  /\ program = "App"
  /\ tabId \in TabIds(tabs)
  /\ renamingTabId # tabId
  /\ renamingTabId' = tabId
  /\ appOp' = "startRenaming"
  /\ UNCHANGED <<clock, showSearchBar, program, tabs, activeTabId, error, single,
                 pending>>
  /\ UNCHANGED treeVars

\* the names typed into the rename input
TabNames == {<<"x">>, <<" ">>}

\* completeRename(tabId, newName): Enter, Escape or blur of the rename input,
\* which is rendered for the tab whose id is renamingTabId
completeRename(tabId, newName) ==
  /\ program = "App"
  /\ tabId \in TabIds(tabs)
  /\ renamingTabId = tabId
  /\ tabs' = [i \in 1..Len(tabs) |->
               IF tabs[i].id = tabId
                 THEN [tabs[i] EXCEPT !.name = IF trim(newName) = <<>> THEN Untitled
                                               ELSE trim(newName)]
                 ELSE tabs[i]]
  /\ renamingTabId' = NoTab
  /\ appOp' = "rename"
  /\ UNCHANGED <<clock, showSearchBar, program, activeTabId, error, single, pending>>
  /\ UNCHANGED treeVars

\* tabs.findIndex((tab) => tab.id === id), counted from 1; 0 when none
findIndex(ts, id) ==
  IF id \in TabIds(ts) THEN Min({i \in 1..Len(ts) : ts[i].id = id}) ELSE 0

\* arrayMove of @dnd-kit/sortable: the element at from is taken out and put
\* in at to
arrayMove(array, from, to) ==
  [i \in 1..Len(array) |->
     IF i = to THEN array[from]
     ELSE IF i < to THEN Without(array, from)[i]
     ELSE Without(array, from)[i - 1]]

\* handleDragEnd(event): the tab with id active is dropped over the tab with
\* id over (NoTab: over nothing).  A tab being renamed cannot be dragged.
handleDragEnd(active, over) ==
  /\ program = "App"
  /\ active \in TabIds(tabs)
  /\ over \in TabIds(tabs) \cup {NoTab}
  /\ renamingTabId # active
  /\ tabs' = IF over # NoTab /\ active # over
               THEN arrayMove(tabs, findIndex(tabs, active), findIndex(tabs, over))
               ELSE tabs
  /\ appOp' = "dragEnd"
  /\ UNCHANGED <<renamingTabId, clock, showSearchBar, program, activeTabId, error,
                 single, pending>>
  /\ UNCHANGED treeVars

\* the ids a behaviour can give to tabs
AllTabIds == {TabId(now) : now \in StartTime..(StartTime + MaxNewTabs)}

\* the files opened from the tab bar's behaviours
TabPaths == {<<"/", "d", "/", "a">>}
TabFileTexts == {MalformedText, JSONstringify(SrcObject)}

InitTabs ==
  /\ mounted = FALSE
  /\ source = JNull
  /\ data = JNull
  /\ searchTerm = <<>>
  /\ expandedNodes = {}
  /\ matchCount = 0
  /\ currentMatchIndex = 0
  /\ matchPositions = <<>>
  /\ matchRefs = NoRefs
  /\ dom = <<>>
  /\ timers = <<>>
  /\ loads = 0
  /\ lastOp = "init"
  /\ AppStart("App")

NextTabs ==
  \/ addNewTab
  \/ \E tabId \in AllTabIds : closeTab(tabId)
  \/ \E tabId \in AllTabIds : onClickTab(tabId)
  \/ \E tabId \in AllTabIds : startRenaming(tabId)
  \/ \E tabId \in AllTabIds, newName \in TabNames : completeRename(tabId, newName)
  \/ \E active \in AllTabIds, over \in AllTabIds \cup {NoTab} :
        handleDragEnd(active, over)
  \/ openJsonFile
  \/ \E k \in 1..MaxPending : DialogCancelled(k)
  \/ \E k \in 1..MaxPending, selected \in TabPaths : DialogReturned(k, selected)
  \/ \E k \in 1..MaxPending, content \in TabFileTexts : ReadReturned(k, content)

SpecTabs == InitTabs /\ [][NextTabs]_vars

(***************************************************************************)
(* What the claims speak of, stated without the engine: the occurrences of *)
(* a term in a text and the pre-order walk of a document.                  *)
(***************************************************************************)
\* the positions (0-based) where text equals term, ignoring case
OccurrencePositions(text, term) ==
  {p \in 0..(Len(text) - Len(term)) :
     toLowerCase(SubSeq(text, p + 1, p + Len(term))) = toLowerCase(term)}

\* The non-overlapping occurrences found scanning left to right: an
\* occurrence is taken exactly when it overlaps no occurrence taken before it.
ScannedOccurrences(text, term) ==
  CHOOSE S \in SUBSET OccurrencePositions(text, term) :
    \A p \in OccurrencePositions(text, term) :
      (p \in S) <=> (\A q \in S : q < p => q + Len(term) <= p)

RECURSIVE Ascending(_)
Ascending(S) == IF S = {} THEN <<>> ELSE <<Min(S)>> \o Ascending(S \ {Min(S)})

\* the identifiers of the occurrences of term in one text, left to right
TextIds(text, path, kind, term) ==
  LET occ == Ascending(ScannedOccurrences(text, term))
  IN  [k \in 1..Len(occ) |->
         path \o <<":">> \o kind \o <<":">> \o NumToStr(k - 1) \o <<":">>
              \o toLowerCase(SubSeq(text, occ[k] + 1, occ[k] + Len(term)))]

\* The identifiers in pre-order: a leaf's occurrences; for an array its
\* elements in index order; for an object, entry by entry in the order of
\* value.v, the occurrences in the key and then those inside the value.
RECURSIVE PreOrderIds(_, _, _)
RECURSIVE PreOrderIdsOfChildren(_, _, _, _)
PreOrderIds(value, path, term) ==
  CASE value.t = "string" -> TextIds(value.v, path, KindString, term)
    [] value.t \in {"number", "boolean"} ->
         TextIds(LeafText(value), path, KindPrimitive, term)
    [] value.t = "null" -> <<>>
    [] OTHER -> PreOrderIdsOfChildren(value, path, term, 1)
PreOrderIdsOfChildren(value, path, term, i) ==
  IF i > Len(value.v) THEN <<>>
  ELSE (IF value.t = "array"
          THEN PreOrderIds(value.v[i], PathJoin(path, NumToStr(i - 1)), term)
          ELSE TextIds(value.v[i][1], PathJoin(path, value.v[i][1]), KindKey, term)
               \o PreOrderIds(value.v[i][2], PathJoin(path, value.v[i][1]), term))
       \o PreOrderIdsOfChildren(value, path, term, i + 1)

\* the number of scanned occurrences in all key names and in all string,
\* number and boolean leaves of a document
RECURSIVE TotalOccurrences(_, _)
RECURSIVE TotalOccurrencesOfChildren(_, _, _)
TotalOccurrences(value, term) ==
  CASE value.t \in {"string", "number", "boolean"} ->
         Cardinality(ScannedOccurrences(LeafText(value), term))
    [] value.t = "null" -> 0
    [] OTHER -> TotalOccurrencesOfChildren(value, term, 1)
TotalOccurrencesOfChildren(value, term, i) ==
  IF i > Len(value.v) THEN 0
  ELSE (IF value.t = "array" THEN TotalOccurrences(value.v[i], term)
        ELSE Cardinality(ScannedOccurrences(value.v[i][1], term))
             + TotalOccurrences(value.v[i][2], term))
       + TotalOccurrencesOfChildren(value, term, i + 1)

\* a term that is empty or made of white space only
OnlyWhiteSpace(term) == \A i \in 1..Len(term) : term[i] = " "

Searched == mounted /\ ~OnlyWhiteSpace(searchTerm)

\* the state is the one a mount or a change of the search term left
AfterSearch == Searched /\ lastOp \in {"mount", "term"}

(***************************************************************************)
(* C1                                                                      *)
(***************************************************************************)
\* C1: for every document and every non-blank term, once the search effect
\* has run the stored match count equals the length of the stored ordered
\* list of match identifiers.
C1_CountIsLength == Searched => matchCount = Len(matchPositions)

\* {"x": 1, "y": 11} searched for "1": three occurrences in two nodes
C1_Witness ==
  AfterSearch /\ source = DocE /\ searchTerm = <<"1">> /\ matchCount = 3

(***************************************************************************)
(* C2                                                                      *)
(***************************************************************************)
\* the proper ancestor paths (above, then the node itself for its children)
\* of every key, string and primitive match of a document
RECURSIVE AncestorsOfMatches(_, _, _, _)
RECURSIVE AncestorsOfChildMatches(_, _, _, _, _)
AncestorsOfMatches(value, path, above, term) ==
  CASE value.t \in {"string", "number", "boolean"} ->
         IF OccurrencePositions(LeafText(value), term) # {} THEN above ELSE {}
    [] value.t = "null" -> {}
    [] OTHER -> AncestorsOfChildMatches(value, path, above \cup {path}, term, 1)
AncestorsOfChildMatches(value, path, upTo, term, i) ==
  IF i > Len(value.v) THEN {}
  ELSE (IF value.t = "array"
          THEN AncestorsOfMatches(value.v[i], PathJoin(path, NumToStr(i - 1)), upTo, term)
          ELSE (IF OccurrencePositions(value.v[i][1], term) # {} THEN upTo ELSE {})
               \cup AncestorsOfMatches(value.v[i][2], PathJoin(path, value.v[i][1]),
                                       upTo, term))
       \cup AncestorsOfChildMatches(value, path, upTo, term, i + 1)

\* C2: after a search with a non-blank term that has a match, whatever the
\* prior Expanded-Set, every proper ancestor path of every match, up to root,
\* is in Expanded-Set.
C2_MatchAncestorsExpanded ==
  (AfterSearch /\ matchCount > 0)
    => AncestorsOfMatches(data, Root, {}, searchTerm) \subseteq expandedNodes

(***************************************************************************)
(* C3                                                                      *)
(***************************************************************************)
\* C3: whenever the document changes (the first mount included), whatever
\* the search term, Expanded-Set is afterwards exactly the set of all paths
\* of the new document.
C3_DocumentChangeExpandsAll ==
  (mounted /\ lastOp \in {"mount", "data"}) => expandedNodes = AllPaths(data)

(***************************************************************************)
(* C4                                                                      *)
(***************************************************************************)
AllContainersExpanded ==
  renderedToggles(data, Root, AllPaths(data)) \subseteq expandedNodes

RenderedIds == [i \in 1..Len(dom) |-> dom[i].id]

\* C4: with every container expanded, the identifiers of the rendered
\* highlighted units, in document order, are exactly orderedMatchIds.
C4_RenderedIdsAreEngineIds ==
  (Searched /\ AllContainersExpanded) => RenderedIds = matchPositions

(***************************************************************************)
(* C5                                                                      *)
(***************************************************************************)
CurrentUnits == {k \in 1..Len(dom) : dom[k].cur}

\* C5: in every reachable state at most one rendered highlighted unit is
\* marked current, and after a goToNextMatch / goToPrevMatch with count > 0
\* (once its deferred step has run) exactly one is.
C5_OneCurrentUnit ==
  /\ Cardinality(CurrentUnits) <= 1
  /\ (lastOp = "timer" /\ matchCount > 0) => Cardinality(CurrentUnits) = 1

(***************************************************************************)
(* C6                                                                      *)
(***************************************************************************)
\* Scenario E: x's match, then y's ordinal 0, then y's ordinal 1
ScenarioE_Ids ==
  << <<"r", "o", "o", "t", ".", "x", ":", "p", "r", "i", "m", "i", "t", "i", "v", "e",
       ":", "0", ":", "1">>,
     <<"r", "o", "o", "t", ".", "y", ":", "p", "r", "i", "m", "i", "t", "i", "v", "e",
       ":", "0", ":", "1">>,
     <<"r", "o", "o", "t", ".", "y", ":", "p", "r", "i", "m", "i", "t", "i", "v", "e",
       ":", "1", ":", "1">> >>

\* C6: orderedMatchIds is in pre-order: for each entry of an object the
\* matches in the key, then the matches inside its value, then the later
\* entries; array elements in index order; within one text left to right.
C6_PreOrder ==
  Searched =>
    /\ matchPositions = PreOrderIds(data, Root, searchTerm)
    /\ (source = DocE /\ searchTerm = <<"1">>) => matchPositions = ScenarioE_Ids

\* {"Ab": "aAa"} searched for "A": the match in the key, then the three
\* matches inside its value, left to right
C6_Witness ==
  /\ AfterSearch /\ source = DocKV /\ searchTerm = <<"A">>
  /\ matchPositions = << MatchId(PathJoin(Root, <<"A", "b">>), KindKey, 0, <<"a">>),
                         MatchId(PathJoin(Root, <<"A", "b">>), KindString, 0, <<"a">>),
                         MatchId(PathJoin(Root, <<"A", "b">>), KindString, 1, <<"a">>),
                         MatchId(PathJoin(Root, <<"A", "b">>), KindString, 2, <<"a">>) >>

(***************************************************************************)
(* C7                                                                      *)
(***************************************************************************)
\* The entries es with the integer-like keys first, in ascending numeric
\* order, and the other keys after them in the order of es.
IndexKeysFirstOrder(es) ==
  LET n == Len(es)
      isIdx(i) == IsArrayIndex(es[i][1])
      perm == CHOOSE f \in [1..n -> 1..n] :
                /\ \A i, j \in 1..n : i # j => f[i] # f[j]
                /\ \A i, j \in 1..n : i < j =>
                     \/ isIdx(f[i]) /\ ~isIdx(f[j])
                     \/ isIdx(f[i]) /\ isIdx(f[j])
                          /\ StrToNum(es[f[i]][1]) < StrToNum(es[f[j]][1])
                     \/ ~isIdx(f[i]) /\ ~isIdx(f[j]) /\ f[i] < f[j]
  IN  [i \in 1..n |-> es[perm[i]]]

RECURSIVE IndexKeysFirst(_)
IndexKeysFirst(src) ==
  IF src.t = "array" THEN JArr([i \in 1..Len(src.v) |-> IndexKeysFirst(src.v[i])])
  ELSE IF src.t = "object"
    THEN JObj(IndexKeysFirstOrder(
                [i \in 1..Len(src.v) |-> <<src.v[i][1], IndexKeysFirst(src.v[i][2])>>]))
  ELSE src

RECURSIVE HasIndexKey(_)
HasIndexKey(src) ==
  /\ IsContainer(src)
  /\ \E i \in 1..Len(src.v) :
       IF src.t = "array" THEN HasIndexKey(src.v[i])
       ELSE IsArrayIndex(src.v[i][1]) \/ HasIndexKey(src.v[i][2])

\* C7 as claimed: for every object, integer-like keys included, the engine
\* visits the keys in the order they appear in the source document.
C7_SourceOrder ==
  Searched => matchPositions = PreOrderIds(source, Root, searchTerm)

\* C7 as amended: the engine visits the keys of an object in the order of
\* the parsed object: the integer-like keys first, in ascending numeric
\* order, then the other keys in the order of the source document; for a
\* document with no integer-like key this is the order of the source.
C7_ParsedKeyOrder ==
  Searched =>
    /\ matchPositions = PreOrderIds(IndexKeysFirst(source), Root, searchTerm)
    /\ ~HasIndexKey(source) => matchPositions = PreOrderIds(source, Root, searchTerm)

\* {"2": "aAa", "1": "aAa"} searched for "A": the first match is in root.1
C7_Witness ==
  /\ AfterSearch /\ source = DocIdx /\ searchTerm = <<"A">>
  /\ Len(matchPositions) = 6
  /\ SubSeq(matchPositions[1], 1, 6) = <<"r", "o", "o", "t", ".", "1">>

(***************************************************************************)
(* C8                                                                      *)
(***************************************************************************)
\* the fields of an identifier path:kind:ordinal:text (the text of a term
\* of the model holds no colon)
Colons(id) == {i \in 1..Len(id) : id[i] = ":"}
IdNode(id) == SubSeq(id, 1, Max(Colons(id) \ {Max(Colons(id))}) - 1)
IdOrdinal(id) ==
  StrToNum(SubSeq(id, Max(Colons(id) \ {Max(Colons(id))}) + 1, Max(Colons(id)) - 1))

\* C8: each key name and each string, number or boolean leaf yields one
\* match record per non-overlapping occurrence found scanning left to right
\* ("aa" in "aAa" once, "1" in 11 twice), with the ordinals 0, 1, 2, ...
\* within the node; count is the sum over the document (Scenario A: 2); a
\* null yields none.
C8_Occurrences ==
  Searched =>
    /\ matchCount = TotalOccurrences(data, searchTerm)
    /\ Len(matchPositions) = TotalOccurrences(data, searchTerm)
    /\ \A i \in 1..Len(matchPositions) :
         \/ IdOrdinal(matchPositions[i]) = 0
         \/ /\ i > 1
            /\ IdNode(matchPositions[i - 1]) = IdNode(matchPositions[i])
            /\ IdOrdinal(matchPositions[i - 1]) + 1 = IdOrdinal(matchPositions[i])
    /\ (source = DocA /\ searchTerm = <<"o">>) => matchCount = 2
    /\ (source = DocOverlap /\ searchTerm = <<"a", "a">>) => matchCount = 1
    /\ (source = DocE /\ searchTerm = <<"1">>) => matchCount = 3
    /\ (source = DocD) =>
         matchCount = Cardinality({k \in {<<"a">>, <<"b">>, <<"c">>} :
                                     OccurrencePositions(k, searchTerm) # {}})

\* ["aAa"] searched for "aa": one occurrence, not two
C8_Witness ==
  AfterSearch /\ source = DocOverlap /\ searchTerm = <<"a", "a">> /\ matchCount = 1

(***************************************************************************)
(* C9                                                                      *)
(***************************************************************************)
\* the paths of the string, number and boolean leaves in which term occurs
RECURSIVE LeafMatchPaths(_, _, _)
RECURSIVE LeafMatchPathsOfChildren(_, _, _, _)
LeafMatchPaths(value, path, term) ==
  CASE value.t \in {"string", "number", "boolean"} ->
         IF OccurrencePositions(LeafText(value), term) # {} THEN {path} ELSE {}
    [] value.t = "null" -> {}
    [] OTHER -> LeafMatchPathsOfChildren(value, path, term, 1)
LeafMatchPathsOfChildren(value, path, term, i) ==
  IF i > Len(value.v) THEN {}
  ELSE LeafMatchPaths(IF value.t = "array" THEN value.v[i] ELSE value.v[i][2],
                      PathJoin(path, IF value.t = "array" THEN NumToStr(i - 1)
                                     ELSE value.v[i][1]),
                      term)
       \cup LeafMatchPathsOfChildren(value, path, term, i + 1)

ScenarioA_Forced ==
  {Root, PathJoin(Root, <<"a">>), PathJoin(PathJoin(Root, <<"a">>), <<"b">>)}

\* C9: after a search, the path of every leaf with a string or primitive
\* match is itself in Expanded-Set; Scenario A leaves root, root.a and
\* root.a.b in Expanded-Set.
C9_LeafPathForced ==
  AfterSearch =>
    /\ LeafMatchPaths(data, Root, searchTerm) \subseteq expandedNodes
    /\ (source = DocA /\ searchTerm = <<"o">>) => ScenarioA_Forced \subseteq expandedNodes

(***************************************************************************)
(* C10                                                                     *)
(***************************************************************************)
\* C10: when the search term becomes blank (empty or white space only) the
\* match count is 0, the ordered match list is empty, Current Match Index is
\* 0, no unit is highlighted, and Expanded-Set is what it was before.
C10_BlankTermInert ==
  [][(mounted /\ searchTerm' # searchTerm /\ OnlyWhiteSpace(searchTerm'))
       => /\ matchCount' = 0
          /\ matchPositions' = <<>>
          /\ currentMatchIndex' = 0
          /\ dom' = <<>>
          /\ expandedNodes' = expandedNodes]_vars

\* the term has become " " and Expanded-Set is still one that only earlier
\* searches and toggles can have left
C10_Witness ==
  /\ mounted /\ lastOp = "term" /\ searchTerm = <<" ">>
  /\ matchCount = 0 /\ matchPositions = <<>> /\ currentMatchIndex = 0
  /\ expandedNodes # {} /\ expandedNodes # AllPaths(data)

(***************************************************************************)
(* C11                                                                     *)
(***************************************************************************)
\* the state of the component other than the record of the last event
NavigationFrame ==
  <<mounted, source, data, searchTerm, expandedNodes, matchCount,
    currentMatchIndex, matchPositions, matchRefs, dom, timers, loads>>

\* C11: goToNextMatch sets Current Match Index to (index + 1) mod count and
\* goToPrevMatch sets it to (index - 1 + count) mod count, each scheduling
\* one deferred step; when count is 0 both leave every piece of state as it
\* was and schedule nothing.
C11_NavigationStep ==
  [][/\ lastOp' = "next" =>
          IF matchCount = 0 THEN UNCHANGED NavigationFrame
          ELSE /\ currentMatchIndex' = (currentMatchIndex + 1) % matchCount
               /\ Len(timers') = Len(timers) + 1
               /\ timers'[Len(timers')].index = currentMatchIndex'
     /\ lastOp' = "prev" =>
          IF matchCount = 0 THEN UNCHANGED NavigationFrame
          ELSE /\ currentMatchIndex' = (currentMatchIndex - 1 + matchCount) % matchCount
               /\ Len(timers') = Len(timers) + 1
               /\ timers'[Len(timers')].index = currentMatchIndex']_vars

\* goToNextMatch has wrapped from the last of at least two matches to the
\* first
C11_Witness ==
  /\ lastOp = "next" /\ matchCount >= 2 /\ currentMatchIndex = 0
  /\ timers # <<>> /\ timers[Len(timers)].index = 0

(***************************************************************************)
(* C12                                                                     *)
(***************************************************************************)
\* the index after k presses of "next match" from index i with n matches
RECURSIVE PressedNext(_, _, _)
PressedNext(i, n, k) == IF k = 0 THEN i ELSE PressedNext((i + 1) % n, n, k - 1)

\* C12: from any reachable state with count > 0, pressing "next match" count
\* times returns Current Match Index to the value it had before.
C12_NextCycle ==
  (Searched /\ matchCount > 0) =>
     PressedNext(currentMatchIndex, matchCount, matchCount) = currentMatchIndex

(***************************************************************************)
(* C13                                                                     *)
(***************************************************************************)
\* every anchor of the cache refs was registered by the commit d: it is an
\* element of d that carries the identifier it is cached under
AnchorsAreOf(refs, d) ==
  \A id \in DOMAIN refs :
     /\ refs[id].live
     /\ refs[id].id = id
     /\ \E k \in 1..Len(d) : d[k].id = id /\ SameElement(d[k], refs[id])

\* C13: every change of the search term resets Current Match Index to 0 and
\* replaces the anchor cache with an empty one, whatever they were before:
\* once the change has settled the cache holds only the anchors registered
\* by the render of the new term (none when the new term is blank).
C13_TermChangeResets ==
  [][(mounted /\ searchTerm' # searchTerm) =>
        /\ currentMatchIndex' = 0
        /\ AnchorsAreOf(matchRefs', dom')
        /\ OnlyWhiteSpace(searchTerm') => matchRefs' = NoRefs]_vars

\* the term changed while the index was 1 (the deferred step of that
\* navigation is still pending) and the cache held anchors
C13_Witness ==
  /\ lastOp = "term" /\ currentMatchIndex = 0
  /\ timers # <<>> /\ timers[1].index = 1
  /\ matchRefs = NoRefs /\ OnlyWhiteSpace(searchTerm)

(***************************************************************************)
(* C14                                                                     *)
(***************************************************************************)
\* the set E with the membership of p flipped
Flipped(E, p) == IF p \in E THEN E \ {p} ELSE E \cup {p}

\* C14: toggleNode(path) flips the membership of exactly that path in
\* Expanded-Set and leaves every other path, the match list and Current
\* Match Index as they were; the toggle of that path is still rendered, and
\* applying toggleNode to it again restores the original Expanded-Set.
C14_ToggleFlipsOnePath ==
  [][lastOp' = "toggle" =>
       /\ \E p \in renderedToggles(data, Root, expandedNodes) :
            /\ expandedNodes' = Flipped(expandedNodes, p)
            /\ (p \in expandedNodes') # (p \in expandedNodes)
            /\ \A o \in (expandedNodes \cup expandedNodes') \ {p} :
                 (o \in expandedNodes') = (o \in expandedNodes)
            /\ p \in renderedToggles(data', Root, expandedNodes')
            /\ Flipped(expandedNodes', p) = expandedNodes
       /\ UNCHANGED <<matchCount, matchPositions, currentMatchIndex, searchTerm,
                      data>>]_vars

\* root.a of {"a": {"b": "hello world", "c": 1}} has been collapsed while
\* a search with matches is active
C14_Witness ==
  /\ lastOp = "toggle" /\ source = DocA /\ matchCount > 0
  /\ PathJoin(Root, <<"a">>) \notin expandedNodes
  /\ Root \in expandedNodes

(***************************************************************************)
(* C15                                                                     *)
(***************************************************************************)
\* the path of the node value at path and of every node below it
RECURSIVE NodePaths(_, _)
NodePaths(value, path) ==
  {path} \cup
    (IF value.t = "array"
       THEN UNION {NodePaths(value.v[i], path \o <<".">> \o NumToStr(i - 1))
                     : i \in 1..Len(value.v)}
     ELSE IF value.t = "object"
       THEN UNION {NodePaths(value.v[i][2], path \o <<".">> \o value.v[i][1])
                     : i \in 1..Len(value.v)}
     ELSE {})

\* root, root.a, root.a.b, root.a.c
DocA_Paths ==
  {Root, PathJoin(Root, <<"a">>),
   PathJoin(PathJoin(Root, <<"a">>), <<"b">>),
   PathJoin(PathJoin(Root, <<"a">>), <<"c">>)}

\* C15: expandAll sets Expanded-Set to exactly the set of all paths of the
\* current document (root, every container path and every leaf path), and
\* collapseAll sets it to the empty set, whatever the prior Expanded-Set and
\* the search term.
C15_ExpandCollapseAll ==
  /\ (mounted /\ lastOp = "expandAll") =>
        /\ expandedNodes = NodePaths(data, Root)
        /\ source = DocA => expandedNodes = DocA_Paths
  /\ (mounted /\ lastOp = "collapseAll") => expandedNodes = {}

\* expandAll on {"a": {"b": "hello world", "c": 1}} while a search with
\* matches is active
C15_Witness ==
  /\ mounted /\ lastOp = "expandAll" /\ source = DocA /\ matchCount = 2
  /\ expandedNodes = DocA_Paths

(***************************************************************************)
(* C16                                                                     *)
(***************************************************************************)
\* what the render of the current state shows
Shown == renderedNodes(data, Root, <<>>, expandedNodes)
ShownAddrs == {Shown[k].addr : k \in 1..Len(Shown)}

\* the places of all nodes of a document, and of its leaves
RECURSIVE NodeAddrs(_, _)
NodeAddrs(value, addr) ==
  {addr} \cup
    (IF IsContainer(value)
       THEN UNION {NodeAddrs(IF value.t = "array" THEN value.v[i] ELSE value.v[i][2],
                             addr \o <<i>>) : i \in 1..Len(value.v)}
       ELSE {})

RECURSIVE NodeAt(_, _)
NodeAt(value, addr) ==
  IF addr = <<>> THEN value
  ELSE NodeAt(IF value.t = "array" THEN value.v[Head(addr)] ELSE value.v[Head(addr)][2],
              Tail(addr))

LeafAddrs(value) == {a \in NodeAddrs(value, <<>>) : ~IsContainer(NodeAt(value, a))}

\* C16: for every document, the render after expandAll shows every leaf, and
\* the render after collapseAll shows only the root header (no child of the
\* root is rendered).
C16_ExpandShowsAllCollapseShowsRoot ==
  /\ (mounted /\ lastOp = "expandAll") =>
        /\ LeafAddrs(data) \subseteq ShownAddrs
        /\ ShownAddrs = NodeAddrs(data, <<>>)
  /\ (mounted /\ lastOp = "collapseAll") =>
        /\ ShownAddrs = {<<>>}
        /\ Len(Shown) = 1
        /\ Shown[1].shown \in {"closed", "[]", "{}"}

\* expandAll on {"x": {"y": {"a": 1}}}: the leaf three levels down is shown
C16_Witness ==
  /\ mounted /\ lastOp = "expandAll" /\ source = DocDeep
  /\ <<1, 1, 1>> \in ShownAddrs

(***************************************************************************)
(* C17                                                                     *)
(***************************************************************************)
IsEmptyContainer(value) == IsContainer(value) /\ Len(value.v) = 0

\* C17: an empty object and an empty array are always rendered inline as {}
\* and [], with no toggle and no children, whether or not their path is in
\* Expanded-Set.
C17_EmptyContainersInline ==
  mounted =>
    \A k \in 1..Len(Shown) :
       IsEmptyContainer(NodeAt(data, Shown[k].addr)) =>
         /\ Shown[k].shown = (IF NodeAt(data, Shown[k].addr).t = "array"
                                THEN "[]" ELSE "{}")
         /\ \A j \in 1..Len(Shown) :
              j # k => ~(Len(Shown[j].addr) > Len(Shown[k].addr)
                         /\ SubSeq(Shown[j].addr, 1, Len(Shown[k].addr)) = Shown[k].addr)
         /\ (\A j \in 1..Len(Shown) : Shown[j].path = Shown[k].path => j = k)
              => Shown[k].path \notin renderedToggles(data, Root, expandedNodes)

\* {"a": [], "b": {}, "c": null} with root expanded and neither root.a nor
\* root.b in Expanded-Set: both are rendered, as [] and {}
C17_Witness ==
  /\ mounted /\ source = DocD /\ Root \in expandedNodes
  /\ PathJoin(Root, <<"a">>) \notin expandedNodes
  /\ PathJoin(Root, <<"b">>) \notin expandedNodes
  /\ \E k \in 1..Len(Shown) : Shown[k].shown = "[]"
  /\ \E k \in 1..Len(Shown) : Shown[k].shown = "{}"

(***************************************************************************)
(* What the claims about the host speak of                                 *)
(***************************************************************************)
\* the document state the user sees: raw text, parsed document, mode and
\* (tabbed App) the name of the tab
DocumentState ==
  IF program = "App"
    THEN [jsonInput |-> ActiveTab(tabs, activeTabId).jsonInput,
          parsedJson |-> ActiveTab(tabs, activeTabId).parsedJson,
          isEditing |-> ActiveTab(tabs, activeTabId).isEditing,
          name |-> ActiveTab(tabs, activeTabId).name]
    ELSE [jsonInput |-> single.jsonInput,
          parsedJson |-> single.parsedJson,
          isEditing |-> single.showInputView,
          name |-> Untitled]

\* text that is not blank and that JSON.parse rejects
Malformed(text) == trim(text) # <<>> /\ ~JSONparseText(text).ok

(***************************************************************************)
(* C18                                                                     *)
(***************************************************************************)
\* C18: when edited text fails to parse, the error message starts with
\* "Invalid JSON: ", the raw text is kept as typed, and the parsed document
\* of before is left unchanged.
C18_MalformedInputKeepsDocument ==
  [][\A input \in InputTexts :
       (Malformed(input) /\ (handleJsonInput(input) \/ handleJsonInputSingle(input)))
         => /\ error' # NoError /\ error'[1] = "Invalid JSON: "
            /\ DocumentState'.jsonInput = input
            /\ DocumentState'.parsedJson = DocumentState.parsedJson]_vars

(***************************************************************************)
(* C19                                                                     *)
(***************************************************************************)
\* C19: when opening a file fails (the dialog or the read rejects, or the
\* content is not well-formed JSON), an error message is set and the raw
\* text, the parsed document, the mode and the tab name are left unchanged.
C19_FailedOpenKeepsState ==
  [][\A k \in 1..MaxPending :
       (\/ OpenRejected(k)
        \/ \E content \in FileTexts :
             /\ Malformed(content)
             /\ ReadReturned(k, content) \/ ReadReturnedSingle(k, content))
         => /\ error' # NoError
            /\ DocumentState' = DocumentState]_vars

(***************************************************************************)
(* C20                                                                     *)
(***************************************************************************)
\* C20: after toggleView switches a tab from view mode to edit mode, the tab
\* is in edit mode and its editor text is the 2-space-indented serialization
\* of its parsed document.
C20_EditModeShowsPrettyPrint ==
  [][(toggleView /\ ~DocumentState.isEditing)
       => /\ DocumentState'.isEditing
          /\ DocumentState'.jsonInput =
               JSONstringifyIndented(DocumentState'.parsedJson)]_vars

(***************************************************************************)
(* C21                                                                     *)
(***************************************************************************)
\* the matched substring recorded in an identifier path:kind:ordinal:text
IdText(id) == SubSeq(id, Max(Colons(id)) + 1, Len(id))

C22_ChordTogglesSearchBar ==
  [][\A chord \in BOOLEAN :
       handleKeyDown(chord)
         => ((showSearchBar' # showSearchBar)
               <=> (/\ chord
                    /\ ~DocumentState.isEditing
                    /\ DocumentState.parsedJson # JNull))]_vars

(***************************************************************************)
(* C23                                                                     *)
(***************************************************************************)
\* the paths a run of the engine forces into Expanded-Set
ForcedPaths(value, term) == MergeExpanded({}, Engine(value, term))

\* C23: whatever happened before (earlier searches, toggles, navigation,
\* another document), the count and the ordered identifiers in force are
\* those of a run of the engine on the current document and term alone, and
\* a run forces the same paths.
C23_EngineDeterministic ==
  Searched =>
    /\ matchCount = Engine(data, searchTerm).count
    /\ matchPositions = Engine(data, searchTerm).positions
    /\ (lastOp \in {"mount", "term", "data"} /\ matchCount > 0)
         => ForcedPaths(data, searchTerm) \subseteq expandedNodes

\* {"a": {"a": 1}} searched for "A" a second time, with an Expanded-Set the
\* search at the mount did not have
C23_Witness ==
  /\ Searched /\ lastOp = "term" /\ source = DocNest /\ searchTerm = <<"A">>
  /\ PathJoin(PathJoin(Root, <<"a">>), <<"a">>) \in expandedNodes
  /\ matchCount = 2

(***************************************************************************)
(* C24                                                                     *)
(***************************************************************************)
\* a deferred locate step runs: the only step that takes a timer away
TimerStep == timers # <<>> /\ timers' = Tail(timers)

RECURSIVE NodeParents(_, _)
NodeParents(value, path) ==
  IF value.t = "array"
    THEN UNION {{<<PathJoin(path, NumToStr(i - 1)), path>>}
                  \cup NodeParents(value.v[i], PathJoin(path, NumToStr(i - 1)))
                : i \in 1..Len(value.v)}
  ELSE IF value.t = "object"
    THEN UNION {{<<PathJoin(path, value.v[i][1]), path>>}
                  \cup NodeParents(value.v[i][2], PathJoin(path, value.v[i][1]))
                : i \in 1..Len(value.v)}
  ELSE {}

\* the paths of the arrays and objects of a document
ContainerPaths(value) == {Root} \cup {pr[2] : pr \in NodeParents(value, Root)}

\* C25: for every non-root node of the document, removing the last
\* dot-segment of its path gives the path of its parent, and every ancestor
\* path computed by trimming at the last dot is the path of a container of
\* the document.
C25_TrimmedPathIsParent ==
  mounted =>
    \A pr \in NodeParents(data, Root) :
      /\ TrimLastSegment(pr[1]) = pr[2]
      /\ TrimmedAncestors(pr[1]) \subseteq ContainerPaths(data)

(***************************************************************************)
(* C26                                                                     *)
(***************************************************************************)
\* the path of the node at the place addr below the node value at path
RECURSIVE PathOfAddr(_, _, _)
PathOfAddr(value, path, addr) ==
  IF addr = <<>> THEN path
  ELSE PathOfAddr(IF value.t = "array" THEN value.v[Head(addr)]
                  ELSE value.v[Head(addr)][2],
                  PathJoin(path, IF value.t = "array" THEN NumToStr(Head(addr) - 1)
                                 ELSE value.v[Head(addr)][1]),
                  Tail(addr))

\* the places of the proper ancestors of the node at addr
ProperAncestors(addr) == {SubSeq(addr, 1, n) : n \in 0..(Len(addr) - 1)}

\* the paths of the string, number, boolean and null leaves of the document
LeafPaths(value) == {PathOfAddr(value, Root, a) : a \in LeafAddrs(value)}

\* C26: the children of a non-empty array or object are rendered if and
\* only if its path is in Expanded-Set (otherwise the header is shown
\* closed); hence a node is rendered exactly when the path of every proper
\* ancestor is in Expanded-Set, and the leaf paths in Expanded-Set have no
\* effect on what is rendered.
C26_RenderedIffAncestorsExpanded ==
  mounted =>
    /\ \A a \in NodeAddrs(data, <<>>) :
         (a \in ShownAddrs)
           <=> (\A b \in ProperAncestors(a) :
                  PathOfAddr(data, Root, b) \in expandedNodes)
    /\ \A k \in 1..Len(Shown) :
         LET node == NodeAt(data, Shown[k].addr)
         IN  (IsContainer(node) /\ Len(node.v) > 0) =>
               /\ Shown[k].shown = (IF Shown[k].path \in expandedNodes
                                      THEN "open" ELSE "closed")
               /\ (Shown[k].path \in expandedNodes)
                    <=> (Shown[k].addr \o <<1>> \in ShownAddrs)
    /\ Shown = renderedNodes(data, Root, <<>>, expandedNodes \ LeafPaths(data))
    /\ Shown = renderedNodes(data, Root, <<>>, expandedNodes \cup LeafPaths(data))

(***************************************************************************)
(* C27                                                                     *)
(***************************************************************************)
\* C27: once the effects have settled, Current Match Index is a valid
\* cursor: 0 <= index < count when count > 0, and index = 0 when count = 0.
C27_IndexIsValidCursor ==
  mounted =>
    IF matchCount > 0
      THEN 0 <= currentMatchIndex /\ currentMatchIndex < matchCount
      ELSE currentMatchIndex = 0

(***************************************************************************)
(* C28                                                                     *)
(***************************************************************************)
\* C28: once the effects have settled, every path in Expanded-Set is a path
\* of the current document: no path of an earlier document and no empty
\* path is in it.
C28_ExpandedPathsAreCurrent ==
  mounted =>
    /\ expandedNodes \subseteq NodePaths(data, Root)
    /\ <<>> \notin expandedNodes

(***************************************************************************)
(* C29                                                                     *)
(***************************************************************************)
\* C29: when a deferred locate step runs, the units it leaves marked current
\* are those carrying the identifier at Current Match Index in the match
\* list in force at that moment, whatever changed since the step was
\* scheduled.
C29_LocateUsesStateInForce ==
  [][TimerStep =>
       \A k \in 1..Len(dom) :
         dom'[k].cur <=> dom[k].id = PositionAt(matchPositions, currentMatchIndex)]_vars

(***************************************************************************)
(* C30                                                                     *)
(***************************************************************************)
\* C30: after goToNextMatch / goToPrevMatch and its deferred step, the match
\* at Current Match Index is rendered and is the unit marked current, also
\* when an ancestor was collapsed after the search was computed.
C30_TargetRenderedAndCurrent ==
  (mounted /\ lastOp = "timer" /\ matchCount > 0) =>
    \E k \in 1..Len(dom) :
      /\ dom[k].id = PositionAt(matchPositions, currentMatchIndex)
      /\ dom[k].cur

(***************************************************************************)
(* C31                                                                     *)
(***************************************************************************)
\* C31: the identifiers in orderedMatchIds are pairwise distinct, for every
\* document and term.
C31_IdsDistinct ==
  Searched =>
    \A i, j \in 1..Len(matchPositions) :
      i # j => matchPositions[i] # matchPositions[j]

\* the tab after a load of content from the file selected has completed in it
C32_Loaded(tab, selected, content) ==
  [tab EXCEPT !.name = FileName(selected), !.jsonInput = content,
              !.parsedJson = JSONparseText(content).value, !.isEditing = FALSE]

\* C32: when a load completes, whatever was done to the tabs while openJsonFile
\* was suspended is kept: the tabs are those of before the completion, in the
\* same order, and one of them alone has changed, to hold the file.
C32_LoadKeepsTabChanges ==
  [][\A k \in 1..MaxPending, content \in TabFileTexts :
       (ReadReturned(k, content) /\ JSONparseText(content).ok) =>
         /\ Len(tabs') = Len(tabs)
         /\ \E i \in 1..Len(tabs) :
              /\ tabs'[i] = C32_Loaded(tabs[i], pending[k].selected, content)
              /\ \A j \in 1..Len(tabs) : j # i => tabs'[j] = tabs[j]]_vars

\* C33: after any sequence of tab operations and file loads there is at least
\* one tab and activeTabId is the id of one of the tabs; closing the only tab
\* changes nothing, and closing the active tab makes the first of the tabs
\* that remain the active one.
C33_ActiveTabInList ==
  /\ [](Len(tabs) >= 1 /\ activeTabId \in TabIds(tabs))
  /\ [][\A tabId \in AllTabIds :
          closeTab(tabId) =>
            IF Len(tabs) = 1
              THEN tabs' = tabs /\ activeTabId' = activeTabId
              ELSE /\ TabIds(tabs') = TabIds(tabs) \ {tabId}
                   /\ tabId = activeTabId => activeTabId' = tabs'[1].id]_vars

\* C34: a tab in view mode holds an object or an array, so its tree and the
\* Edit control are rendered.
C34_ViewModeHasContainer ==
  program = "App" =>
    \A i \in 1..Len(tabs) :
      ~tabs[i].isEditing =>
        Truthy(tabs[i].parsedJson) /\ IsContainer(tabs[i].parsedJson)

====
